---- MODULE Spec2Model ----
(***************************************************************************)
(* Verification model of the Bedrock Linux userland: the crossfs and etcfs *)
(* FUSE servers (configuration core, request handlers).                    *)
(*                                                                         *)
(* C strings are modelled as sequences of one-character strings, so that   *)
(* tokenizing (sscanf), length accounting (strlen) and serialization       *)
(* (strcat) are computed the way the code computes them.                   *)
(***************************************************************************)
EXTENDS Integers, Sequences, FiniteSets, TLC

VARIABLES
    cfgs,        \* crossfs: the cfg_entry array (cfgs[0..cfg_cnt-1])
    cfg_size,    \* crossfs: cfg_stat.st_size
    root_fds,    \* crossfs: open stratum root file descriptors, fd -> stratum name
    files,       \* crossfs: the backing files of the strata
    x_last,      \* crossfs: the last request served and its outcome
    globals,     \* etcfs: the globals array (globals[0..global_cnt-1])
    overrides,   \* etcfs: the overrides array (overrides[0..override_cnt-1])
    e_size,      \* etcfs: cfg_stat.st_size
    e_files,     \* etcfs: the files under the local and global reference directories
    creds,       \* etcfs: euid, egid and supplementary groups of the serving thread
    e_now,       \* etcfs: time(NULL), in seconds
    e_last       \* etcfs: the last request served and its outcome

cross_vars == <<cfgs, cfg_size, root_fds, files, x_last>>
etc_vars == <<globals, overrides, e_size, e_files, creds, e_now, e_last>>
vars == <<cfgs, cfg_size, root_fds, files, x_last, globals, overrides, e_size, e_files,
          creds, e_now, e_last>>

(***************************************************************************)
(* errno values and limits                                                 *)
(***************************************************************************)
EPERM == 1
ENOENT == 2
ESRCH == 3
EBADF == 9
ENOMEM == 12
EACCES == 13
EISDIR == 21
EINVAL == 22
EROFS == 30
ENAMETOOLONG == 36
ELOOP == 40
PIPE_BUF == 4096

(***************************************************************************)
(* Bounds of the model                                                     *)
(***************************************************************************)
MaxCfg == 2      \* cfg_cnt never exceeds this in the explored runs
MaxBack == 2     \* back_cnt of one cfg_entry never exceeds this
MaxDrift == 1    \* explored distance between st_size and the serialization
MaxGroups == 65  \* most supplementary groups a caller has
StartTime == 2   \* time(NULL) when the first request arrives

(***************************************************************************)
(* Character-sequence helpers                                              *)
(***************************************************************************)
Whitespace == {" ", "\t", "\n"}

RECURSIVE Concat(_)
Concat(ss) == IF ss = <<>> THEN <<>> ELSE Head(ss) \o Concat(Tail(ss))

Contains(s, ch) == \E i \in 1..Len(s) : s[i] = ch

\* memcmp(buf, word, strlen(word)) == 0 with size >= strlen(word)
HasPrefix(s, w) == Len(s) >= Len(w) /\ SubSeq(s, 1, Len(w)) = w

Abs(n) == IF n < 0 THEN -n ELSE n

Min2(a, b) == IF a < b THEN a ELSE b

\* Op(v), with v computed once
With(v, Op(_)) == CHOOSE y \in {Op(x) : x \in {v}} : TRUE

(***************************************************************************)
(* sscanf: the directives the configuration parsers use.                   *)
(*   "s"    %s      skip white space, then a maximal run of non-white      *)
(*   "c"    %c      exactly one character, white space included            *)
(*   "[^:]" %[^:]   a non-empty maximal run of characters other than ':'   *)
(*   ":"            the literal character ':'                              *)
(* The result is the sequence of converted fields, so its length is        *)
(* sscanf's return value; every field is a character sequence. Input left  *)
(* after the last directive is ignored, as sscanf ignores it.              *)
(***************************************************************************)
EndOfRun(s, i, stops) ==
    CHOOSE k \in i..(Len(s) + 1) :
        /\ (k = Len(s) + 1 \/ s[k] \in stops)
        /\ \A m \in i..(k - 1) : s[m] \notin stops

SkipWs(s, i) ==
    CHOOSE j \in i..(Len(s) + 1) :
        /\ (j = Len(s) + 1 \/ s[j] \notin Whitespace)
        /\ \A m \in i..(j - 1) : s[m] \in Whitespace

RECURSIVE sscanf(_, _, _)
sscanf(s, fmt, i) ==
    IF fmt = <<>> THEN <<>>
    ELSE LET d == Head(fmt) IN
         CASE d = "s" ->
                With(SkipWs(s, i), LAMBDA j :
                    IF j > Len(s) THEN <<>>
                    ELSE With(EndOfRun(s, j, Whitespace), LAMBDA k :
                             <<SubSeq(s, j, k - 1)>> \o sscanf(s, Tail(fmt), k)))
           [] d = "c" ->
                IF i > Len(s) THEN <<>>
                ELSE <<SubSeq(s, i, i)>> \o sscanf(s, Tail(fmt), i + 1)
           [] d = "[^:]" ->
                With(EndOfRun(s, i, {":"}), LAMBDA k :
                    IF k = i THEN <<>>
                    ELSE <<SubSeq(s, i, k - 1)>> \o sscanf(s, Tail(fmt), k))
           [] OTHER ->
                IF i <= Len(s) /\ s[i] = d THEN sscanf(s, Tail(fmt), i + 1)
                ELSE <<>>

(***************************************************************************)
(* crossfs: constants                                                      *)
(***************************************************************************)
CMD_CLEAR == <<"c", "l", "e", "a", "r">>
CMD_ADD == <<"a", "d", "d">>
CMD_RM == <<"r", "m">>
\* LOCAL ("local"), renamed: LOCAL is a reserved word
LOCAL_STR == <<"l", "o", "c", "a", "l">>

CFG_PATH ==
    <<"/", ".", "b", "e", "d", "r", "o", "c", "k", "-", "c", "o", "n", "f",
      "i", "g", "-", "f", "i", "l", "e", "s", "y", "s", "t", "e", "m">>

LOCAL_ALIAS_PATH ==
    <<"/", ".", "l", "o", "c", "a", "l", "-", "a", "l", "i", "a", "s">>

\* enum filter, in declaration order; filter_str[f] is its name
FILTER_BIN == "FILTER_BIN"
FILTER_BIN_RESTRICT == "FILTER_BIN_RESTRICT"
FILTER_INI == "FILTER_INI"
FILTER_FONT == "FILTER_FONT"
FILTER_SERVICE == "FILTER_SERVICE"
FILTER_PASS == "FILTER_PASS"

Filters ==
    <<FILTER_BIN, FILTER_BIN_RESTRICT, FILTER_INI, FILTER_FONT, FILTER_SERVICE,
      FILTER_PASS>>

filter_str ==
    [f \in {Filters[i] : i \in 1..Len(Filters)} |->
        CASE f = FILTER_BIN -> <<"b", "i", "n">>
          [] f = FILTER_BIN_RESTRICT ->
                <<"b", "i", "n", "-", "r", "e", "s", "t", "r", "i", "c", "t">>
          [] f = FILTER_INI -> <<"i", "n", "i">>
          [] f = FILTER_FONT -> <<"f", "o", "n", "t">>
          [] f = FILTER_SERVICE -> <<"s", "e", "r", "v", "i", "c", "e">>
          [] f = FILTER_PASS -> <<"p", "a", "s", "s">>]

\* "%s%c%s%c%s%c%[^:]:%s%c"
CrossCmdFmt == <<"s", "c", "s", "c", "s", "c", "[^:]", ":", "s", "c">>

(***************************************************************************)
(* crossfs: configuration state as a value                                 *)
(*   cfgs : sequence of [filter, cpath, back]                              *)
(*   back : sequence of [lpath, name, root_fd, local]                      *)
(*   size : cfg_stat.st_size                                               *)
(*   fds  : the set of open stratum root fds, as [fd -> stratum name]      *)
(***************************************************************************)
Closed == <<>>

FdPool == 7..(6 + MaxCfg * MaxBack + 1)

CrossSt(c, sz, f) == [cfgs |-> c, size |-> sz, fds |-> f]

Ret(st, rv) == [st |-> st, rv |-> rv]

BackIndex_NoLookup(back, name, lpath) == 0

RootFdCnt_One(c, root_fd) == 1

CfgIndex(c, cpath) ==
    LET hits == {i \in 1..Len(c) : c[i].cpath = cpath}
    IN  IF hits = {} THEN 0 ELSE CHOOSE i \in hits : \A j \in hits : i <= j

BackIndex(back, name, lpath) ==
    LET hits == {i \in 1..Len(back) :
                    back[i].name = name /\ back[i].lpath = lpath}
    IN  IF hits = {} THEN 0 ELSE CHOOSE i \in hits : \A j \in hits : i <= j

\* the loop "Re-use root_fd for the given stratum": the inner loop breaks at
\* the first hit, the outer loop goes on, so the last cfg_entry with a hit wins
ReuseRootFd(c, name) ==
    LET hits == {i \in 1..Len(c) :
                    \E j \in 1..Len(c[i].back) : c[i].back[j].name = name}
    IN  IF hits = {} THEN -1
        ELSE LET i == CHOOSE m \in hits : \A k \in hits : k <= m
                 j == CHOOSE n \in 1..Len(c[i].back) :
                        /\ c[i].back[n].name = name
                        /\ \A k \in 1..(n - 1) : c[i].back[k].name # name
             IN  c[i].back[j].root_fd

\* open() returns the lowest descriptor that is not open
LowestFreeFd(f) ==
    CHOOSE fd \in FdPool : f[fd] = Closed /\ \A g \in FdPool : g < fd => f[g] # Closed

CloseFd(f, fd) == IF fd \in DOMAIN f THEN [f EXCEPT ![fd] = Closed] ELSE f

(***************************************************************************)
(* crossfs: path classification                                            *)
(***************************************************************************)
is_parent(a, b) ==
    /\ Len(a) < Len(b)
    /\ b[Len(a) + 1] = "/"
    /\ SubSeq(b, 1, Len(a)) = a

is_equal_or_parent(a, b) ==
    /\ Len(a) <= Len(b)
    /\ (Len(a) = Len(b) \/ b[Len(a) + 1] = "/")
    /\ SubSeq(b, 1, Len(a)) = a

CLASS_BACK == "CLASS_BACK"
CLASS_VDIR == "CLASS_VDIR"
CLASS_ROOT == "CLASS_ROOT"
CLASS_CFG == "CLASS_CFG"
CLASS_LOCAL == "CLASS_LOCAL"
CLASS_ENOENT == "CLASS_ENOENT"

classify_ipath_VdirFirst(c, ipath) ==
    LET backs == {i \in 1..Len(c) : is_equal_or_parent(c[i].cpath, ipath)}
        vdirs == {i \in 1..Len(c) : is_parent(ipath, c[i].cpath)}
        first(S) == CHOOSE i \in S : \A j \in S : i <= j
    IN  IF vdirs # {} THEN [class |-> CLASS_VDIR, cfg |-> first(vdirs)]
        ELSE IF backs # {} THEN [class |-> CLASS_BACK, cfg |-> first(backs)]
        ELSE IF ipath = <<"/">> THEN [class |-> CLASS_ROOT, cfg |-> 0]
        ELSE IF ipath = CFG_PATH THEN [class |-> CLASS_CFG, cfg |-> 0]
        ELSE IF ipath = LOCAL_ALIAS_PATH THEN [class |-> CLASS_LOCAL, cfg |-> 0]
        ELSE [class |-> CLASS_ENOENT, cfg |-> 0]

\* the class, and the index of the cfg_entry *cfg is set to (0: not set)
classify_ipath(c, ipath) ==
    LET backs == {i \in 1..Len(c) : is_equal_or_parent(c[i].cpath, ipath)}
        vdirs == {i \in 1..Len(c) : is_parent(ipath, c[i].cpath)}
        first(S) == CHOOSE i \in S : \A j \in S : i <= j
    IN  IF backs # {} THEN [class |-> CLASS_BACK, cfg |-> first(backs)]
        ELSE IF vdirs # {} THEN [class |-> CLASS_VDIR, cfg |-> first(vdirs)]
        ELSE IF ipath = <<"/">> THEN [class |-> CLASS_ROOT, cfg |-> 0]
        ELSE IF ipath = CFG_PATH THEN [class |-> CLASS_CFG, cfg |-> 0]
        ELSE IF ipath = LOCAL_ALIAS_PATH THEN [class |-> CLASS_LOCAL, cfg |-> 0]
        ELSE [class |-> CLASS_ENOENT, cfg |-> 0]

(***************************************************************************)
(* crossfs: the writes of the configuration workload                       *)
(***************************************************************************)
Sp == <<" ">>
Nl == <<"\n">>

AddCmd(f, cpath, stratum, lpath) ==
    Concat(<<CMD_ADD, Sp, f, Sp, cpath, Sp, stratum, <<":">>, lpath, Nl>>)

RmCmd(f, cpath, stratum, lpath) ==
    Concat(<<CMD_RM, Sp, f, Sp, cpath, Sp, stratum, <<":">>, lpath, Nl>>)

ClearCmd == CMD_CLEAR \o Nl

CmdFilters == {filter_str[FILTER_BIN], filter_str[FILTER_PASS]}
CPaths == {<<"/", "a">>, <<"/", "a", "/", "b">>}
Strata == {<<"s">>, LOCAL_STR}
LPaths == {<<"/", "x">>}

\* the commands of the grammar over the workload's tokens
AddCmds == {AddCmd(f, c, s, l) : f \in CmdFilters, c \in CPaths, s \in Strata, l \in LPaths}
RmCmds == {RmCmd(f, c, s, l) : f \in CmdFilters, c \in CPaths, s \in Strata, l \in LPaths}
WellFormed == AddCmds \cup RmCmds \cup {ClearCmd}

\* a command of PIPE_BUF + 1 bytes: "add pass /a s:/xxx...x\n"
LongCmd ==
    LET head == Concat(<<CMD_ADD, Sp, filter_str[FILTER_PASS], Sp, <<"/", "a">>, Sp,
                         <<"s">>, <<":">>, <<"/">>>>)
    IN  head \o [i \in 1..(PIPE_BUF - Len(head)) |-> "x"] \o Nl

\* writes outside the grammar
Malformed == {
    CMD_CLEAR,                                               \* no newline
    CMD_CLEAR \o <<"x">> \o Nl,                              \* unknown command word
    <<"l", "s">> \o Nl,                                      \* unknown command word
    <<"a", "d", "d", "x">> \o Sp \o SubSeq(AddCmd(filter_str[FILTER_BIN], <<"/", "a">>, <<"s">>, <<"/", "x">>), 5, 16),
    SubSeq(AddCmd(filter_str[FILTER_BIN], <<"/", "a">>, <<"s">>, <<"/", "x">>), 1, 15),   \* no newline
    SubSeq(RmCmd(filter_str[FILTER_BIN], <<"/", "a">>, <<"s">>, <<"/", "x">>), 1, 14),    \* no newline
    AddCmd(filter_str[FILTER_BIN], <<"a">>, <<"s">>, <<"/", "x">>),       \* cpath without '/'
    AddCmd(filter_str[FILTER_BIN], <<"/", "a">>, <<"s">>, <<"x">>),       \* lpath without '/'
    AddCmd(filter_str[FILTER_BIN], <<"/", "a">>, <<"s", "/">>, <<"/", "x">>), \* stratum with '/'
    AddCmd(<<"e", "x", "e">>, <<"/", "a">>, <<"s">>, <<"/", "x">>),      \* unknown filter
    RmCmd(filter_str[FILTER_BIN], <<"a">>, <<"s">>, <<"/", "x">>),        \* cpath without '/'
    RmCmd(<<"e", "x", "e">>, <<"/", "a">>, <<"s">>, <<"/", "x">>),       \* unknown filter
    AddCmd(filter_str[FILTER_BIN], <<"/", "a">>, <<"s">>, <<"/", "x">>) \o <<"x">>,  \* text after the newline
    Concat(<<CMD_ADD, Sp, Sp, filter_str[FILTER_BIN], Sp, <<"/", "a">>, Sp, <<"s">>, <<":">>, <<"/", "x">>, Nl>>),
    LongCmd,
    <<>>
}

WriteBufs == WellFormed \cup Malformed

\* sscanf(nbuf, "%s%c%s%c%s%c%[^:]:%s%c", ...): the fields converted, looked up
\* in a table for the writes of the workload
TokenTable == [b \in WriteBufs |-> IF Len(b) > PIPE_BUF - 1 THEN <<>> ELSE sscanf(b, CrossCmdFmt, 1)]

CrossTokens(buf) ==
    IF buf \in DOMAIN TokenTable THEN TokenTable[buf] ELSE sscanf(buf, CrossCmdFmt, 1)

(***************************************************************************)
(* crossfs: configuration commands                                         *)
(***************************************************************************)
\* every back_entry's close(alias.root_fd) unless local; cfg_cnt = 0; size = 0
cfg_clear(st) ==
    LET closed == {st.cfgs[i].back[j].root_fd :
                      <<i, j>> \in {p \in (1..Len(st.cfgs)) \X (1..MaxBack + 1) :
                                      /\ p[2] <= Len(st.cfgs[p[1]].back)
                                      /\ ~st.cfgs[p[1]].back[p[2]].local}}
    IN  CrossSt(<<>>, 0, [fd \in FdPool |-> IF fd \in closed THEN Closed ELSE st.fds[fd]])

\* The steps of cfg_add that can fail, as the environment decides (fail):
\*   "cpath"  malloc(cpath) / realloc(cfgs), before the cfg_entry is made
\*   "back"   malloc(lpath) / malloc(stratum) / realloc(cfg->back)
\*   "open"   fchroot_open(strata_root_fd, stratum, O_DIRECTORY)
\*   "none"   nothing fails
AddFails == {"none", "cpath", "back", "open"}

CrossSanityFails(t, cmd) ==
    \/ t[1] # cmd
    \/ Head(t[5]) # "/"
    \/ Head(t[8]) # "/"
    \/ t[2] # <<" ">>
    \/ t[4] # <<" ">>
    \/ t[6] # <<" ">>
    \/ t[9] # <<"\n">>
    \/ Contains(t[7], "/")

FilterOf(tok) ==
    LET hits == {i \in 1..Len(Filters) : filter_str[Filters[i]] = tok}
    IN  IF hits = {} THEN "none" ELSE Filters[CHOOSE i \in hits : TRUE]

\* the cfg_entry list after "No preexisting cfg_entry, make a new one"
WithCfgEntry(c, filter, cpath) ==
    IF CfgIndex(c, cpath) # 0 THEN c
    ELSE Append(c, [filter |-> filter, cpath |-> cpath, back |-> <<>>])

cfg_add(st, buf, fail) ==
    IF Len(buf) > PIPE_BUF - 1 THEN Ret(st, -ENAMETOOLONG)
    ELSE
    LET t == CrossTokens(buf) IN
    IF Len(t) # 9 THEN Ret(st, -EINVAL)
    ELSE IF CrossSanityFails(t, CMD_ADD) THEN Ret(st, -EINVAL)
    ELSE IF FilterOf(t[3]) = "none" THEN Ret(st, -EINVAL)
    ELSE
    LET cpath == t[5]
        stratum == t[7]
        lpath == t[8]
    IN
    IF CfgIndex(st.cfgs, cpath) = 0 /\ fail = "cpath" THEN Ret(st, -ENOMEM)
    ELSE
    LET c1 == WithCfgEntry(st.cfgs, FilterOf(t[3]), cpath)
        ci == CfgIndex(c1, cpath)
        st1 == [st EXCEPT !.cfgs = c1]
    IN
    IF BackIndex(c1[ci].back, stratum, lpath) # 0 THEN Ret(st1, Len(buf))
    ELSE IF fail = "back" THEN Ret(st1, -ENOMEM)
    ELSE
    LET local == (stratum = LOCAL_STR)
        reuse == ReuseRootFd(c1, stratum)
        opens == ~local /\ reuse < 0
    IN
    IF opens /\ fail = "open" THEN Ret(st1, -ENOMEM)
    ELSE
    LET root_fd == IF opens THEN LowestFreeFd(st.fds) ELSE reuse
        fds1 == IF opens THEN [st.fds EXCEPT ![root_fd] = stratum] ELSE st.fds
        back == [lpath |-> lpath, name |-> stratum, root_fd |-> root_fd,
                 local |-> local]
        c2 == [c1 EXCEPT ![ci].back = Append(@, back)]
    IN  Ret(CrossSt(c2, st.size + Len(buf) - Len(CMD_ADD) - 1, fds1), Len(buf))

\* move the last element over element i, then drop the last element
SwapRemove(seq, i) ==
    LET n == Len(seq)
        moved == IF i # n THEN [seq EXCEPT ![i] = seq[n]] ELSE seq
    IN  SubSeq(moved, 1, n - 1)

RootFdCnt(c, root_fd) ==
    Cardinality({p \in (1..Len(c)) \X (1..MaxBack + 1) :
                    /\ p[2] <= Len(c[p[1]].back)
                    /\ c[p[1]].back[p[2]].root_fd = root_fd})

cfg_rm(st, buf) ==
    IF Len(buf) > PIPE_BUF - 1 THEN Ret(st, -ENAMETOOLONG)
    ELSE
    LET t == CrossTokens(buf) IN
    IF Len(t) # 9 THEN Ret(st, -EINVAL)
    ELSE IF CrossSanityFails(t, CMD_RM) THEN Ret(st, -EINVAL)
    ELSE
    LET ci == CfgIndex(st.cfgs, t[5]) IN
    IF ci = 0 THEN Ret(st, -EINVAL)
    ELSE
    LET bi == BackIndex(st.cfgs[ci].back, t[7], t[8]) IN
    IF bi = 0 THEN Ret(st, -EINVAL)
    ELSE
    LET back == st.cfgs[ci].back[bi]
        fds1 == IF ~back.local /\ RootFdCnt(st.cfgs, back.root_fd) = 1
                THEN CloseFd(st.fds, back.root_fd) ELSE st.fds
        c1 == [st.cfgs EXCEPT ![ci].back = SwapRemove(@, bi)]
        c2 == IF Len(c1[ci].back) = 0 THEN SwapRemove(c1, ci) ELSE c1
    IN  Ret(CrossSt(c2, st.size - (Len(buf) - Len(CMD_RM) - 1), fds1), Len(buf))

CfgLine_NoColon(cfg, back) ==
    Concat(<<filter_str[cfg.filter], <<" ">>, cfg.cpath, <<" ">>, back.name,
             <<" ">>, back.lpath, <<"\n">>>>)

\* the text cfg_read builds with strcat, one line per back_entry
CfgLine(cfg, back) ==
    Concat(<<filter_str[cfg.filter], <<" ">>, cfg.cpath, <<" ">>, back.name,
             <<":">>, back.lpath, <<"\n">>>>)

RECURSIVE CfgLines(_, _, _)
CfgLines(c, i, j) ==
    IF i > Len(c) THEN <<>>
    ELSE IF j > Len(c[i].back) THEN CfgLines(c, i + 1, 1)
    ELSE <<CfgLine(c[i], c[i].back[j])>> \o CfgLines(c, i, j + 1)

CfgText(c) == Concat(CfgLines(c, 1, 1))

\* cfg_read(buf, size, offset) for 0 <= offset <= strlen(str): the bytes copied
\* to buf. str is malloc(st_size + 1): the strcat calls write past its end when
\* st_size is less than the length of the text ("overflow").
cfg_read(st, size, offset) ==
    IF Len(st.cfgs) = 0 THEN [rv |-> 0, text |-> <<>>, overflow |-> FALSE]
    ELSE LET str == CfgText(st.cfgs)
             rv == Min2(Len(str) - offset, size)
         IN  [rv |-> rv, text |-> SubSeq(str, offset + 1, offset + rv),
              overflow |-> st.size < Len(str)]

(***************************************************************************)
(* crossfs: the backing files of the strata.  A file is looked up by the   *)
(* stratum whose root the root_fd refers to and by its bpath.  st_mode is  *)
(* the set of the names of its bits.                                       *)
(***************************************************************************)
PATH_MAX == 4096
O_RDONLY == 0
O_WRONLY == 1
O_RDWR == 2

TypeBits == {"S_IFREG", "S_IFDIR"}
PermBits == {"S_ISUID", "S_ISGID", "S_ISVTX",
             "S_IRUSR", "S_IWUSR", "S_IXUSR",
             "S_IRGRP", "S_IWGRP", "S_IXGRP",
             "S_IROTH", "S_IWOTH", "S_IXOTH"}

Absent == [type |-> "absent", mode |-> {}, uid |-> 0, len |-> 0, data |-> <<>>]

Lookup(fs, name, bpath) ==
    IF <<name, bpath>> \in DOMAIN fs THEN fs[<<name, bpath>>] ELSE Absent

\* the kernel's permission check of open(2) for a caller with this fsuid
MayAccess(f, fsuid, bitUsr, bitOth) ==
    \/ fsuid = 0
    \/ fsuid = f.uid /\ bitUsr \in f.mode
    \/ fsuid # f.uid /\ bitOth \in f.mode

\* open(bpath, flags) under the root of stratum name, as the caller's fsuid:
\* the fd (or -1), errno, and the file afterwards
fchroot_open(fs, name, bpath, flags, fsuid, errno) ==
    LET f == Lookup(fs, name, bpath)
        wants_w == flags.acc # O_RDONLY \/ flags.trunc
        wants_r == flags.acc # O_WRONLY
    IN  IF f.type = "absent" THEN [fd |-> -1, errno |-> ENOENT, fs |-> fs]
        ELSE IF f.type = "dir" /\ wants_w
             THEN [fd |-> -1, errno |-> EISDIR, fs |-> fs]
        ELSE IF \/ wants_r /\ ~MayAccess(f, fsuid, "S_IRUSR", "S_IROTH")
                \/ wants_w /\ ~MayAccess(f, fsuid, "S_IWUSR", "S_IWOTH")
             THEN [fd |-> -1, errno |-> EACCES, fs |-> fs]
        ELSE [fd |-> 3, errno |-> errno,
              fs |-> IF flags.trunc
                     THEN [fs EXCEPT ![<<name, bpath>>].len = 0,
                                     ![<<name, bpath>>].data = <<>>]
                     ELSE fs]

\* stat(bpath, buf) under the root of stratum name
fchroot_stat(fs, name, bpath, errno) ==
    LET f == Lookup(fs, name, bpath)
    IN  IF f.type = "absent"
        THEN [rv |-> -1, errno |-> ENOENT, st_mode |-> {}, st_size |-> 0]
        ELSE [rv |-> 0, errno |-> errno,
              st_mode |-> f.mode \cup {IF f.type = "dir" THEN "S_IFDIR" ELSE "S_IFREG"},
              st_size |-> f.len]

\* the stratum a back_entry refers to: the caller's for a local alias
deref(back, req) == IF back.local THEN req.lname ELSE back.name

NULL == <<>>

calc_bpath(cfg, back, ipath) ==
    IF Len(ipath) < Len(cfg.cpath) THEN NULL
    ELSE IF Len(ipath) = Len(cfg.cpath) THEN back.lpath
    ELSE IF ipath[Len(cfg.cpath) + 1] # "/" THEN NULL
    ELSE IF Len(back.lpath) + Len(ipath) - Len(cfg.cpath) + 1 > PATH_MAX THEN NULL
    ELSE back.lpath \o SubSeq(ipath, Len(cfg.cpath) + 1, Len(ipath))

RECURSIVE stat_first_bpath(_, _, _, _, _, _)
stat_first_bpath(cfg, ipath, fs, req, i, acc) ==
    IF i > Len(cfg.back) THEN acc
    ELSE LET bpath == calc_bpath(cfg, cfg.back[i], ipath) IN
         IF bpath = NULL THEN stat_first_bpath(cfg, ipath, fs, req, i + 1, acc)
         ELSE LET r == fchroot_stat(fs, deref(cfg.back[i], req), bpath, acc.errno) IN
              IF r.rv >= 0 \/ r.errno # ENOENT THEN r
              ELSE stat_first_bpath(cfg, ipath, fs, req, i + 1, r)

\* a search that goes on to the next back_entry after any failure
RECURSIVE open_first_bpath_PastErrors(_, _, _, _, _, _, _)
open_first_bpath_PastErrors(cfg, ipath, flags, fs, req, i, acc) ==
    IF i > Len(cfg.back) THEN acc
    ELSE LET bpath == calc_bpath(cfg, cfg.back[i], ipath) IN
         IF bpath = NULL
         THEN open_first_bpath_PastErrors(cfg, ipath, flags, fs, req, i + 1, acc)
         ELSE LET r == fchroot_open(fs, deref(cfg.back[i], req), bpath, flags,
                                    req.uid, acc.errno) IN
              IF r.fd >= 0 THEN r
              ELSE open_first_bpath_PastErrors(cfg, ipath, flags, fs, req, i + 1, r)

RECURSIVE open_first_bpath(_, _, _, _, _, _, _)
open_first_bpath(cfg, ipath, flags, fs, req, i, acc) ==
    IF i > Len(cfg.back) THEN acc
    ELSE LET bpath == calc_bpath(cfg, cfg.back[i], ipath) IN
         IF bpath = NULL THEN open_first_bpath(cfg, ipath, flags, fs, req, i + 1, acc)
         ELSE LET r == fchroot_open(fs, deref(cfg.back[i], req), bpath, flags,
                                    req.uid, acc.errno) IN
              IF r.fd >= 0 \/ r.errno # ENOENT THEN r
              ELSE open_first_bpath(cfg, ipath, flags, fs, req, i + 1, r)

\* a search that takes the first back_entry without looking for its file
loc_first_bpath_Unchecked(cfg, ipath, fs, req, i) ==
    IF i > Len(cfg.back) THEN 0 ELSE i

\* the index of the first back_entry with something at its bpath, else 0
RECURSIVE loc_first_bpath(_, _, _, _, _)
loc_first_bpath(cfg, ipath, fs, req, i) ==
    IF i > Len(cfg.back) THEN 0
    ELSE LET bpath == calc_bpath(cfg, cfg.back[i], ipath) IN
         IF bpath # NULL /\ Lookup(fs, deref(cfg.back[i], req), bpath).type # "absent"
         THEN i
         ELSE loc_first_bpath(cfg, ipath, fs, req, i + 1)

(***************************************************************************)
(* crossfs: the content the filters serve.  File content is a sequence of  *)
(* bytes; stdio reads it a line at a time into char line[PATH_MAX].        *)
(***************************************************************************)
STRATA_ROOT == <<"/", "b", "e", "d", "r", "o", "c", "k", "/", "s", "t", "r", "a", "t", "a", "/">>
STRAT_PATH == <<"/", "b", "e", "d", "r", "o", "c", "k", "/", "b", "i", "n", "/", "s", "t", "r", "a", "t">>
Tab == <<"\t">>

ini_inject_strat_str == <<
    <<"E", "x", "e", "c", "=">>,
    <<"E", "x", "e", "c", "R", "e", "l", "o", "a", "d", "=">>,
    <<"E", "x", "e", "c", "S", "t", "a", "r", "t", "=">>,
    <<"E", "x", "e", "c", "S", "t", "a", "r", "t", "P", "o", "s", "t", "=">>,
    <<"E", "x", "e", "c", "S", "t", "a", "r", "t", "P", "r", "e", "=">>,
    <<"E", "x", "e", "c", "S", "t", "o", "p", "=">>,
    <<"E", "x", "e", "c", "S", "t", "o", "p", "P", "o", "s", "t", "=">>
>>

ini_expand_path_str == <<
    <<"I", "c", "o", "n", "=">>,
    <<"P", "a", "t", "h", "=">>,
    <<"T", "r", "y", "E", "x", "e", "c", "=">>
>>

\* the bytes of BOUNCER_PATH behind bouncer_fd, and their number as main()
\* reads it with fstat()
Bouncer == <<"E", "L", "F", "b">>
bouncer_size == Len(Bouncer)

pread_FromStart(data, size, offset) == SubSeq(data, 1, Min2(Len(data), size))

\* the bytes pread(fd, buf, size, offset) copies
pread(data, size, offset) ==
    IF offset >= Len(data) THEN <<>>
    ELSE SubSeq(data, offset + 1, Min2(Len(data), offset + size))

\* the number of bytes fgets(line, n, fp) takes from the rest of a stream: up
\* to and with the first newline, n - 1 at most
fgets(data, n) ==
    LET nls == {i \in 1..Len(data) : data[i] = "\n"}
        eol == IF nls = {} THEN Len(data) ELSE CHOOSE i \in nls : \A j \in nls : i <= j
    IN  Min2(n - 1, eol)

\* the lines the loop while (fgets(line, sizeof(line), fp) != NULL) sees
RECURSIVE FileLines(_)
FileLines(data) ==
    IF data = <<>> THEN <<>>
    ELSE <<SubSeq(data, 1, fgets(data, PATH_MAX))>>
         \o FileLines(SubSeq(data, fgets(data, PATH_MAX) + 1, Len(data)))

\* strcatoff on b = [buf, off, wrote]: skip off bytes of the input, append
\* what fits in max
strcatoff(b, str, max) ==
    IF b.off >= Len(str) THEN [b EXCEPT !.off = b.off - Len(str)]
    ELSE [buf |-> b.buf \o SubSeq(str, b.off + 1,
                      b.off + Min2(Len(str) - b.off, max - b.wrote)),
          off |-> 0,
          wrote |-> b.wrote + Min2(Len(str) - b.off, max - b.wrote)]

RECURSIVE CatPieces(_, _, _)
CatPieces(b, pieces, max) ==
    IF pieces = <<>> THEN b
    ELSE CatPieces(strcatoff(b, Head(pieces), max), Tail(pieces), max)

\* the prefixes of the two tables a line matches
StratMatches(line) ==
    {i \in 1..Len(ini_inject_strat_str) : HasPrefix(line, ini_inject_strat_str[i])}
ExpandMatches(line) ==
    {i \in 1..Len(ini_expand_path_str) :
        /\ HasPrefix(line, ini_expand_path_str[i])
        /\ Len(line) > Len(ini_expand_path_str[i])
        /\ line[Len(ini_expand_path_str[i]) + 1] = "/"}

\* a count that leaves out the lines of ini_expand_path_str
IniExtra_StratOnly(line, name) ==
    IF StratMatches(line) # {} THEN Len(STRAT_PATH) + 1 + Len(name) + 1 ELSE 0

\* what getattr_ini adds to st_size for one line
IniExtra(line, name) ==
    (IF StratMatches(line) # {} THEN Len(STRAT_PATH) + 1 + Len(name) + 1 ELSE 0)
    + Cardinality(ExpandMatches(line)) * (Len(STRATA_ROOT) + Len(name))

RECURSIVE IniExtras(_, _)
IniExtras(lines, name) ==
    IF lines = <<>> THEN 0
    ELSE IniExtra(Head(lines), name) + IniExtras(Tail(lines), name)

\* the strings inject_ini hands to strcatoff for one line, in order
RECURSIVE ExpandPieces(_, _, _)
ExpandPieces(line, name, i) ==
    IF i > Len(ini_expand_path_str) THEN <<>>
    ELSE (IF i \in ExpandMatches(line)
          THEN <<ini_expand_path_str[i], STRATA_ROOT, name,
                 SubSeq(line, Len(ini_expand_path_str[i]) + 1, Len(line))>>
          ELSE <<>>)
         \o ExpandPieces(line, name, i + 1)

IniPieces(line, name) ==
    LET sm == StratMatches(line)
        i == CHOOSE k \in sm : \A j \in sm : k <= j
        strat == IF sm = {} THEN <<>>
                 ELSE <<ini_inject_strat_str[i], STRAT_PATH, Sp, name, Sp,
                        SubSeq(line, Len(ini_inject_strat_str[i]) + 1, Len(line))>>
    IN  IF sm = {} /\ ExpandMatches(line) = {} THEN <<line>>
        ELSE strat \o ExpandPieces(line, name, 1)

RECURSIVE InjectLines(_, _, _, _)
InjectLines(b, lines, name, max) ==
    IF lines = <<>> THEN b
    ELSE With(CatPieces(b, IniPieces(Head(lines), name), max),
              LAMBDA b1 : IF b1.wrote >= max THEN b1
                          ELSE InjectLines(b1, Tail(lines), name, max))

\* bytes in the order strcmp compares them
CharOrder == <<
    "\t", "\n", " ", "!", "-", ".", "/", "0", "1", "2", "3", "4", "5", "6",
    "7", "8", "9", ":", "=", "A", "B", "C", "D", "E", "F", "G", "H", "I",
    "J", "K", "L", "M", "N", "O", "P", "Q", "R", "S", "T", "U", "V", "W",
    "X", "Y", "Z", "_", "a", "b", "c", "d", "e", "f", "g", "h", "i", "j",
    "k", "l", "m", "n", "o", "p", "q", "r", "s", "t", "u", "v", "w", "x",
    "y", "z"
>>
CharCode(c) == CHOOSE i \in 1..Len(CharOrder) : CharOrder[i] = c

\* strcmp(a, b) < 0
RECURSIVE StrLess(_, _)
StrLess(a, b) ==
    IF b = <<>> THEN FALSE
    ELSE IF a = <<>> THEN TRUE
    ELSE IF Head(a) # Head(b) THEN CharCode(Head(a)) < CharCode(Head(b))
    ELSE StrLess(Tail(a), Tail(b))

\* snprintf("%u\n") without the newline
RECURSIVE Decimal(_)
Decimal(n) ==
    IF n < 10 THEN <<CharOrder[CharCode("0") + n]>>
    ELSE Decimal(n \div 10) \o <<CharOrder[CharCode("0") + (n % 10)]>>

\* one line of a fonts.dir or fonts.alias: nothing for a comment and for a line
\* without separator, else the key before the separator (the first space of
\* the line, or its first tab when it has no space) and the value after the
\* run of spaces and tabs that starts there
FontLine(line) ==
    LET sps == {i \in 1..Len(line) : line[i] = " "}
        tabs == {i \in 1..Len(line) : line[i] = "\t"}
        from == IF sps # {} THEN sps ELSE tabs
        sep == CHOOSE i \in from : \A j \in from : i <= j
        rest == {i \in (sep + 1)..Len(line) : line[i] \notin {" ", "\t"}}
        val == IF rest = {} THEN Len(line) + 1
               ELSE CHOOSE i \in rest : \A j \in rest : i <= j
    IN  IF line[1] = "!" \/ (sps = {} /\ tabs = {}) THEN <<>>
        ELSE <<[key |-> SubSeq(line, 1, sep - 1), value |-> SubSeq(line, val, Len(line))]>>

\* insert_h_kv: the first value of a key stays
insert_h_kv(kvs, kv) ==
    IF kv = <<>> \/ \E i \in 1..Len(kvs) : kvs[i].key = kv[1].key THEN kvs ELSE kvs \o kv

RECURSIVE FontLines(_, _)
FontLines(kvs, lines) ==
    IF lines = <<>> THEN kvs
    ELSE FontLines(insert_h_kv(kvs, FontLine(Head(lines))), Tail(lines))

\* HASH_SORT(kvs, vstrcmp)
RECURSIVE HASH_SORT(_)
HASH_SORT(kvs) ==
    IF kvs = <<>> THEN <<>>
    ELSE LET m == CHOOSE i \in 1..Len(kvs) :
                      \A j \in 1..Len(kvs) : ~StrLess(kvs[j].key, kvs[i].key)
         IN  <<kvs[m]>> \o HASH_SORT(SubSeq(kvs, 1, m - 1) \o SubSeq(kvs, m + 1, Len(kvs)))

RECURSIVE KvPieces(_)
KvPieces(kvs) ==
    IF kvs = <<>> THEN <<>>
    ELSE <<Head(kvs).key, Tab, Head(kvs).value>> \o KvPieces(Tail(kvs))

RECURSIVE KvSize(_)
KvSize(kvs) ==
    IF kvs = <<>> THEN 0
    ELSE Len(Head(kvs).key) + Len(Tab) + Len(Head(kvs).value) + KvSize(Tail(kvs))

(***************************************************************************)
(* crossfs: getattr                                                        *)
(***************************************************************************)
Strstr(s, w) == \E i \in 1..(Len(s) - Len(w) + 1) : SubSeq(s, i, i + Len(w) - 1) = w

Basename(ipath) ==
    LET slashes == {i \in 1..Len(ipath) : ipath[i] = "/"}
        last == CHOOSE i \in slashes : \A j \in slashes : j <= i
    IN  SubSeq(ipath, last + 1, Len(ipath))

FONTS_DIR == <<"f","o","n","t","s",".","d","i","r">>
FONTS_ALIAS == <<"f","o","n","t","s",".","a","l","i","a","s">>
SV_DIR == <<"/","e","t","c","/","s","v">>
SYSTEMD == <<"s","y","s","t","e","m","d">>

\* fopen(bpath, "r") under the stratum of the back_entry: can the caller read it
CanFopen(cfg, back, ipath, fs, req) ==
    LET bpath == calc_bpath(cfg, back, ipath)
        f == Lookup(fs, deref(back, req), bpath)
    IN  /\ bpath # NULL
        /\ f.type # "absent"
        /\ MayAccess(f, req.uid, "S_IRUSR", "S_IROTH")

\* the content of the file at the bpath of a back_entry
BackData(cfg, back, ipath, fs, req) ==
    Lookup(fs, deref(back, req), calc_bpath(cfg, back, ipath)).data

\* rv and st_size after getattr_ini; st_mode is left alone
getattr_ini(cfg, ipath, fs, req, st_mode, st_size, rv) ==
    IF "S_IFREG" \notin st_mode THEN [rv |-> rv, st_size |-> st_size]
    ELSE LET li == loc_first_bpath(cfg, ipath, fs, req, 1) IN
         IF li = 0 THEN [rv |-> -ENOENT, st_size |-> st_size]
         ELSE IF ~CanFopen(cfg, cfg.back[li], ipath, fs, req)
              THEN [rv |-> -EACCES, st_size |-> st_size]
         ELSE [rv |-> 0,
               st_size |-> st_size
                   + IniExtras(FileLines(BackData(cfg, cfg.back[li], ipath, fs, req)),
                               deref(cfg.back[li], req))]

\* rv is 0 when some bpath can be opened for reading, else -ENOENT; kvs are the
\* pairs of every such file, in the order the back entries list them
RECURSIVE FontMerge(_, _, _, _, _, _)
FontMerge(cfg, ipath, fs, req, i, acc) ==
    IF i > Len(cfg.back) THEN acc
    ELSE IF ~CanFopen(cfg, cfg.back[i], ipath, fs, req)
         THEN FontMerge(cfg, ipath, fs, req, i + 1, acc)
    ELSE FontMerge(cfg, ipath, fs, req, i + 1,
             [rv |-> 0,
              kvs |-> FontLines(acc.kvs,
                          FileLines(BackData(cfg, cfg.back[i], ipath, fs, req)))])

font_merge_kv(cfg, ipath, fs, req) ==
    FontMerge(cfg, ipath, fs, req, 1, [rv |-> -ENOENT, kvs |-> <<>>])

MaskedBits == {"S_ISUID", "S_ISGID", "S_ISVTX", "S_IWUSR", "S_IWGRP", "S_IWOTH"}

StripBits_KeepSticky(st_mode) == st_mode \ (MaskedBits \ {"S_ISVTX"})

\* stbuf->st_mode &= ~(S_ISUID | S_ISGID | S_ISVTX | S_IWUSR | S_IWGRP | S_IWOTH)
StripBits(st_mode) == st_mode \ MaskedBits

\* stbuf->st_mode as getattr_back leaves it, and its return value.  stbuf is the
\* caller's buffer: it keeps its content when no stat() filled it.
getattr_back(cfg, ipath, fs, req, stbuf) ==
    LET r == stat_first_bpath(cfg, ipath, fs, req, 1,
                 [rv |-> -ENOENT, errno |-> req.errno, st_mode |-> stbuf,
                  st_size |-> 0])
    IN
    IF r.rv < 0 THEN [rv |-> -r.errno, st_mode |-> stbuf, st_size |-> 0]
    ELSE
    LET li == loc_first_bpath(cfg, ipath, fs, req, 1)
        bpath == IF li = 0 THEN NULL ELSE calc_bpath(cfg, cfg.back[li], ipath)
        runit == /\ cfg.filter = FILTER_SERVICE
                 /\ li # 0
                 /\ ~Strstr(bpath, SYSTEMD)
                 /\ is_parent(SV_DIR, bpath)
        m1 == IF cfg.filter \in {FILTER_BIN, FILTER_BIN_RESTRICT}
                    /\ "S_IFDIR" \notin r.st_mode
              THEN r.st_mode \cup {"S_IRUSR", "S_IRGRP", "S_IROTH"}
              ELSE IF runit THEN {"S_IFREG", "S_IRUSR"}
              ELSE r.st_mode
        ini == getattr_ini(cfg, ipath, fs, req, r.st_mode, r.st_size,
                           IF cfg.filter = FILTER_SERVICE THEN 0 ELSE r.rv)
        font == font_merge_kv(cfg, ipath, fs, req)
        \* size_t count = 0 is what the count line is printed from
        count == 0
        rv1 == CASE cfg.filter = FILTER_SERVICE ->
                      IF li = 0 THEN -r.errno
                      ELSE IF Strstr(bpath, SYSTEMD) THEN ini.rv
                      ELSE 0
                 [] cfg.filter = FILTER_INI -> ini.rv
                 [] cfg.filter = FILTER_FONT ->
                      IF Basename(ipath) \in {FONTS_DIR, FONTS_ALIAS}
                      THEN font.rv ELSE r.rv
                 [] OTHER -> r.rv
        \* (the st_size of a runit service, the length of a generated unit, is
        \* left at the value of stat)
        size1 == CASE cfg.filter \in {FILTER_BIN, FILTER_BIN_RESTRICT}
                         /\ "S_IFDIR" \notin r.st_mode -> bouncer_size
                   [] cfg.filter = FILTER_SERVICE /\ li # 0 /\ Strstr(bpath, SYSTEMD) ->
                         ini.st_size
                   [] cfg.filter = FILTER_INI -> ini.st_size
                   [] cfg.filter = FILTER_FONT
                         /\ Basename(ipath) \in {FONTS_DIR, FONTS_ALIAS}
                         /\ font.rv >= 0 ->
                         KvSize(font.kvs)
                         + (IF Basename(ipath) = FONTS_DIR
                            THEN Len(Decimal(count)) + Len(Nl) ELSE 0)
                   [] OTHER -> r.st_size
    IN  [rv |-> rv1, st_mode |-> StripBits(m1), st_size |-> size1]

vdir_stat == [st_mode |-> {"S_IFDIR", "S_IRUSR", "S_IXUSR", "S_IRGRP", "S_IXGRP",
                           "S_IROTH", "S_IXOTH"}]
local_stat == [st_mode |-> {"S_IFLNK"} \cup (PermBits \ {"S_ISUID", "S_ISGID", "S_ISVTX"})]
cfg_stat(st) == [st_mode |-> {"S_IFREG", "S_IRUSR", "S_IWUSR"}, st_size |-> st.size]

(***************************************************************************)
(* crossfs: read of a CLASS_BACK path.  Each operator gives the return     *)
(* value and the bytes copied into the caller's buffer.                    *)
(***************************************************************************)
RdOnly == [acc |-> O_RDONLY, trunc |-> FALSE]

\* the index of the back_entry open_first_bpath stops at, 0 when it runs
\* through all of them
RECURSIVE OpenedAt(_, _, _, _, _, _)
OpenedAt(cfg, ipath, flags, fs, req, i) ==
    IF i > Len(cfg.back) THEN 0
    ELSE LET bpath == calc_bpath(cfg, cfg.back[i], ipath) IN
         IF bpath = NULL THEN OpenedAt(cfg, ipath, flags, fs, req, i + 1)
         ELSE LET r == fchroot_open(fs, deref(cfg.back[i], req), bpath, flags,
                                    req.uid, req.errno) IN
              IF r.fd >= 0 \/ r.errno # ENOENT THEN i
              ELSE OpenedAt(cfg, ipath, flags, fs, req, i + 1)

read_pass(cfg, ipath, fs, req, size, offset) ==
    LET r == open_first_bpath(cfg, ipath, RdOnly, fs, req, 1,
                 [fd |-> -ENOENT, errno |-> req.errno, fs |-> fs])
        i == OpenedAt(cfg, ipath, RdOnly, fs, req, 1)
        f == Lookup(fs, deref(cfg.back[i], req), calc_bpath(cfg, cfg.back[i], ipath))
    IN  IF r.fd < 0 THEN [rv |-> -r.errno, text |-> <<>>]
        ELSE IF f.type = "dir" THEN [rv |-> -1, text |-> <<>>]     \* pread: EISDIR
        ELSE [rv |-> Len(pread(f.data, size, offset)), text |-> pread(f.data, size, offset)]

inject_ini(cfg, ipath, fs, req, size, offset) ==
    LET li == loc_first_bpath(cfg, ipath, fs, req, 1) IN
    IF li = 0
    THEN [rv |-> -(IF cfg.back = <<>> THEN req.errno ELSE ENOENT), text |-> <<>>]
    ELSE IF ~CanFopen(cfg, cfg.back[li], ipath, fs, req)
         THEN [rv |-> -EACCES, text |-> <<>>]
    ELSE IF offset < 0 THEN [rv |-> -EINVAL, text |-> <<>>]
    ELSE With(InjectLines([buf |-> <<>>, off |-> offset, wrote |-> 0],
                          FileLines(BackData(cfg, cfg.back[li], ipath, fs, req)),
                          deref(cfg.back[li], req), size),
              LAMBDA b : [rv |-> b.wrote, text |-> b.buf])

\* the unit generate_service_for writes for a runit service directory
RunitUnit(name, bpath) ==
    Concat(<<<<"[", "S", "e", "r", "v", "i", "c", "e", "]">>, Nl,
             ini_inject_strat_str[3], STRAT_PATH, Sp, <<"-", "r">>, Sp, name, Sp,
             STRATA_ROOT, name, bpath, <<"/", "r", "u", "n">>, Nl>>)

read_font(cfg, ipath, fs, req, size, offset) ==
    With(font_merge_kv(cfg, ipath, fs, req),
         LAMBDA m :
            IF m.rv < 0 THEN [rv |-> m.rv, text |-> <<>>]
            ELSE With(CatPieces([buf |-> <<>>, off |-> offset, wrote |-> 0],
                          (IF Basename(ipath) = FONTS_DIR
                           THEN <<Decimal(Len(m.kvs)) \o Nl>> ELSE <<>>)
                          \o KvPieces(HASH_SORT(m.kvs)), size),
                      LAMBDA b : [rv |-> b.wrote, text |-> b.buf]))

read_back(cfg, ipath, fs, req, size, offset) ==
    CASE cfg.filter \in {FILTER_BIN, FILTER_BIN_RESTRICT} ->
            [rv |-> Len(pread(Bouncer, size, offset)), text |-> pread(Bouncer, size, offset)]
      [] cfg.filter = FILTER_SERVICE ->
            LET li == loc_first_bpath(cfg, ipath, fs, req, 1)
                bpath == calc_bpath(cfg, cfg.back[li], ipath)
            IN  IF li = 0
                THEN [rv |-> -(IF cfg.back = <<>> THEN req.errno ELSE ENOENT), text |-> <<>>]
                ELSE IF Strstr(bpath, SYSTEMD)
                     THEN inject_ini(cfg, ipath, fs, req, size, offset)
                ELSE IF is_parent(SV_DIR, bpath)
                     THEN [rv |-> Len(RunitUnit(deref(cfg.back[li], req), bpath)),
                           text |-> RunitUnit(deref(cfg.back[li], req), bpath)]
                ELSE [rv |-> -EBADF, text |-> <<>>]
      [] cfg.filter = FILTER_INI -> inject_ini(cfg, ipath, fs, req, size, offset)
      [] cfg.filter = FILTER_FONT /\ Basename(ipath) \in {FONTS_DIR, FONTS_ALIAS} ->
            read_font(cfg, ipath, fs, req, size, offset)
      [] OTHER -> read_pass(cfg, ipath, fs, req, size, offset)

(***************************************************************************)
(* crossfs: the request handlers.  A request req carries what the handler  *)
(* reads from its environment: the caller's uid, the result of             *)
(* set_local_stratum (lsr), the caller's stratum (lname) and the thread's  *)
(* errno on entry.                                                         *)
(***************************************************************************)
m_getattr(st, req, ipath, fs, stbuf) ==
    IF req.lsr < 0 THEN [rv |-> req.lsr, st_mode |-> stbuf]
    ELSE
    LET k == classify_ipath(st.cfgs, ipath) IN
    CASE k.class = CLASS_BACK -> getattr_back(st.cfgs[k.cfg], ipath, fs, req, stbuf)
      [] k.class \in {CLASS_VDIR, CLASS_ROOT} -> [rv |-> 0, st_mode |-> vdir_stat.st_mode]
      [] k.class = CLASS_CFG ->
            [rv |-> 0, st_mode |-> cfg_stat(st).st_mode, st_size |-> cfg_stat(st).st_size]
      [] k.class = CLASS_LOCAL -> [rv |-> req.lsr, st_mode |-> local_stat.st_mode]
      [] OTHER -> [rv |-> -ENOENT, st_mode |-> stbuf]

m_open(st, req, ipath, flags, fs) ==
    IF req.lsr < 0 THEN [rv |-> req.lsr, fs |-> fs]
    ELSE
    LET k == classify_ipath(st.cfgs, ipath) IN
    CASE k.class = CLASS_BACK ->
            LET cfg == st.cfgs[k.cfg]
                r == open_first_bpath(cfg, ipath, flags, fs, req, 1,
                         [fd |-> -ENOENT, errno |-> req.errno, fs |-> fs])
            IN  IF /\ cfg.filter \in {FILTER_BIN, FILTER_BIN_RESTRICT}
                   /\ flags.acc = O_RDONLY
                   /\ r.fd < 0
                   /\ r.errno = EACCES
                THEN [rv |-> 0, fs |-> r.fs]
                ELSE IF r.fd < 0 THEN [rv |-> -r.errno, fs |-> r.fs]
                ELSE IF flags.acc # O_RDONLY THEN [rv |-> -EROFS, fs |-> r.fs]
                ELSE [rv |-> 0, fs |-> r.fs]
      [] k.class \in {CLASS_VDIR, CLASS_ROOT} -> [rv |-> 0, fs |-> fs]
      [] k.class = CLASS_CFG ->
            [rv |-> IF req.uid # 0 THEN -EACCES ELSE 0, fs |-> fs]
      [] k.class = CLASS_LOCAL -> [rv |-> -ELOOP, fs |-> fs]
      [] OTHER -> [rv |-> -ENOENT, fs |-> fs]

m_read_Ungated(st, req, ipath, size, offset) ==
    IF classify_ipath(st.cfgs, ipath).class = CLASS_CFG THEN cfg_read(st, size, offset)
    ELSE [rv |-> -ENOENT, text |-> <<>>, overflow |-> FALSE]

\* m_read: the return value and the bytes copied to buf.  fs are the backing
\* files, which only a CLASS_BACK path looks at.
m_read_fs(st, req, ipath, size, offset, fs) ==
    IF req.lsr < 0 THEN [rv |-> req.lsr, text |-> <<>>, overflow |-> FALSE]
    ELSE
    LET k == classify_ipath(st.cfgs, ipath) IN
    CASE k.class = CLASS_BACK ->
            With(read_back(st.cfgs[k.cfg], ipath, fs, req, size, offset),
                 LAMBDA r : [rv |-> r.rv, text |-> r.text, overflow |-> FALSE])
      [] k.class = CLASS_CFG ->
            IF req.uid = 0 THEN cfg_read(st, size, offset)
            ELSE [rv |-> -EACCES, text |-> <<>>, overflow |-> FALSE]
      [] k.class \in {CLASS_VDIR, CLASS_ROOT} ->
            [rv |-> -EISDIR, text |-> <<>>, overflow |-> FALSE]
      [] k.class = CLASS_LOCAL -> [rv |-> -EBADF, text |-> <<>>, overflow |-> FALSE]
      [] OTHER -> [rv |-> -ENOENT, text |-> <<>>, overflow |-> FALSE]

m_read(st, req, ipath, size, offset) == m_read_fs(st, req, ipath, size, offset, files)

m_write(st, req, ipath, buf, fail) ==
    IF req.lsr < 0 THEN Ret(st, req.lsr)
    ELSE IF ipath # CFG_PATH THEN Ret(st, -EROFS)
    ELSE IF req.uid # 0 THEN Ret(st, -EACCES)
    ELSE IF HasPrefix(buf, CMD_CLEAR) THEN Ret(cfg_clear(st), Len(buf))
    ELSE IF HasPrefix(buf, CMD_ADD) THEN cfg_add(st, buf, fail)
    ELSE IF HasPrefix(buf, CMD_RM) THEN cfg_rm(st, buf)
    ELSE Ret(st, -EINVAL)

Uids == {0, 1000}
LocalResults == {0, -ESRCH}

Req(uid, lsr) == [uid |-> uid, lsr |-> lsr, lname |-> <<"s">>, errno |-> 0]
Root == Req(0, 0)

St == CrossSt(cfgs, cfg_size, root_fds)

Drift(st) == Abs(st.size - Len(CfgText(st.cfgs)))

WithinBounds(st) ==
    /\ Len(st.cfgs) <= MaxCfg
    /\ \A i \in 1..Len(st.cfgs) : Len(st.cfgs[i].back) <= MaxBack
    /\ Drift(st) <= MaxDrift

NoFiles == [k \in {} |-> Absent]

\* the branch of m_write's dispatch a buffer takes
Kind(buf) ==
    IF HasPrefix(buf, CMD_CLEAR) THEN "clear"
    ELSE IF HasPrefix(buf, CMD_ADD) THEN "add"
    ELSE IF HasPrefix(buf, CMD_RM) THEN "rm"
    ELSE "other"

\* the errno a handler returned, 0 when it succeeded
Res(rv) == IF rv < 0 THEN -rv ELSE 0

Last(op, kind, uid, rv, changed, gave) ==
    [op |-> op, kind |-> kind, uid |-> uid, res |-> Res(rv), changed |-> changed,
     gave |-> gave]

\* etcfs after main(): no globals, no overrides, an empty config file; the
\* thread has served no request yet and runs as root
EtcIdle ==
    /\ globals = <<>>
    /\ overrides = <<>>
    /\ e_size = 0
    /\ e_files = [k \in {} |-> <<>>]
    /\ creds = [euid |-> 0, egid |-> 0, groups |-> <<>>]
    /\ e_now = StartTime
    /\ e_last = [op |-> "none"]

CrossInit ==
    /\ EtcIdle
    /\ cfgs = <<>>
    /\ cfg_size = 0
    /\ root_fds = [fd \in FdPool |-> Closed]
    /\ files = NoFiles
    /\ x_last = Last("none", "other", 0, 0, FALSE, FALSE)

CrossWrite(req, ipath, buf, fail) ==
    \E r \in {m_write(St, req, ipath, buf, fail)} :
    /\ WithinBounds(r.st)
    /\ cfgs' = r.st.cfgs
    /\ cfg_size' = r.st.size
    /\ root_fds' = r.st.fds
    /\ x_last' = Last("write", Kind(buf), req.uid, r.rv, r.st # St, FALSE)
    /\ UNCHANGED <<files, etc_vars>>

\* a read of the whole file: offset 0 and a buffer larger than the text
CrossRead(req, ipath) ==
    \E r \in {m_read(St, req, ipath, PIPE_BUF, 0)} :
    /\ classify_ipath(cfgs, ipath).class # CLASS_BACK
    /\ x_last' = Last("read", "other", req.uid, r.rv, FALSE, r.text # <<>>)
    /\ UNCHANGED <<cfgs, cfg_size, root_fds, files, etc_vars>>

\* the steps of cfg_add that can fail are reached by add commands only
FailsFor(buf) == IF buf \in AddCmds THEN AddFails ELSE {"none"}

CrossNext ==
    \/ \E buf \in WriteBufs : \E fail \in FailsFor(buf) :
          CrossWrite(Root, CFG_PATH, buf, fail)
    \/ CrossRead(Root, CFG_PATH)

SpecCross == CrossInit /\ [][CrossNext]_vars

(***************************************************************************)
(* Properties of the crossfs configuration, checked under SpecCross        *)
(***************************************************************************)
RootWrite(st, buf, fail) == m_write(st, Root, CFG_PATH, buf, fail)
FullRead(st) == m_read(st, Root, CFG_PATH, PIPE_BUF, 0)

\* a line "filter cpath stratum:lpath" of the text of a read
LineOf(f, c, s, l) == Concat(<<f, Sp, c, Sp, s, <<":">>, l, Nl>>)
HasLine(text, line) == Strstr(Nl \o text, Nl \o line)

\* C1: in every state reached by config writes the st_size getattr reports for
\* the config file equals the length of the text a full read returns
C1_SizeEqualsRead ==
    m_getattr(St, Root, CFG_PATH, files, {}).st_size = Len(FullRead(St).text)

\* C2: a write outside the command grammar returns -EINVAL (-ENAMETOOLONG when
\* it does not fit PIPE_BUF) and leaves the configuration as it was
C2_MalformedRejected ==
    \A buf \in Malformed :
        LET r == RootWrite(St, buf, "none")
        IN  /\ r.st = St
            /\ r.rv = IF Len(buf) > PIPE_BUF THEN -ENAMETOOLONG ELSE -EINVAL

\* C3: a config write that returns an error leaves cfg_entries, back_entries,
\* root fds and size exactly as they were
C3_FailureAppliesNothing ==
    \A buf \in WriteBufs : \A fail \in FailsFor(buf) :
        LET r == RootWrite(St, buf, fail)
        IN  r.rv < 0 => r.st = St

\* C7: in every state, for every well-formed add x, the second write of x leaves
\* the configuration the first write of x produced (whatever the second meets
\* when the first succeeded, and under the same failure when the first failed)
C7_AddTwice ==
    \A x \in AddCmds : \A f1 \in AddFails, f2 \in AddFails :
        LET r1 == RootWrite(St, x, f1)
            r2 == RootWrite(r1.st, x, f2)
        IN  (r1.rv > 0 \/ f1 = f2) => (r2.st = r1.st /\ r2.rv = r1.rv)

\* an add of an entry already present has just been served
C7_Witness ==
    /\ x_last.op = "write" /\ x_last.kind = "add"
    /\ x_last.res = 0 /\ ~x_last.changed
    /\ \E x \in AddCmds : RootWrite(St, x, "none").rv > 0 /\ RootWrite(St, x, "none").st = St

Present(st, c, s, l) ==
    /\ CfgIndex(st.cfgs, c) # 0
    /\ BackIndex(st.cfgs[CfgIndex(st.cfgs, c)].back, s, l) # 0

\* C8 as stated: in every state C, for every entry x, add x then rm x yields C
C8_AddRmRestores ==
    \A f \in CmdFilters, c \in CPaths, s \in Strata, l \in LPaths :
        LET r1 == RootWrite(St, AddCmd(f, c, s, l), "none")
            r2 == RootWrite(r1.st, RmCmd(f, c, s, l), "none")
        IN  r2.st = St

\* C8 amended: in every state C, for every entry x that is not already a
\* back_entry of its cpath, an add x that succeeds followed by rm x yields C,
\* less the cfg_entry of that cpath if it had no back_entry in C
C8_AddRmRestoresNew ==
    \A f \in CmdFilters, c \in CPaths, s \in Strata, l \in LPaths : \A fail \in AddFails :
        LET r1 == RootWrite(St, AddCmd(f, c, s, l), fail)
            r2 == RootWrite(r1.st, RmCmd(f, c, s, l), "none")
            ci == CfgIndex(cfgs, c)
            hollow == ci # 0 /\ cfgs[ci].back = <<>>
        IN  (~Present(St, c, s, l) /\ r1.rv > 0) =>
                /\ r2.rv > 0
                /\ r2.st = IF hollow THEN [St EXCEPT !.cfgs = SwapRemove(cfgs, ci)] ELSE St

\* an rm has just removed a back_entry and left other entries in place
C8_Witness ==
    /\ x_last.op = "write" /\ x_last.kind = "rm"
    /\ x_last.res = 0 /\ x_last.changed
    /\ cfgs # <<>>
    /\ \E f \in CmdFilters, c \in CPaths, s \in Strata, l \in LPaths :
          /\ ~Present(St, c, s, l)
          /\ RootWrite(RootWrite(St, AddCmd(f, c, s, l), "none").st,
                       RmCmd(f, c, s, l), "none").st = St

MaxLen == 2      \* length of a backing file

PathA == <<"/", "a">>
PathX == <<"/", "x">>
FileName == <<"/">> \o FONTS_DIR
BackStratum == <<"s">>

BackCmds ==
    {AddCmd(filter_str[Filters[i]], PathA, BackStratum, PathX) : i \in 1..Len(Filters)}
    \cup {AddCmd(filter_str[FILTER_SERVICE], PathA, BackStratum, SV_DIR),
          AddCmd(filter_str[FILTER_BIN], PathA, BackStratum, SV_DIR),
          ClearCmd}

BackPaths == {PathA, PathA \o FileName}

\* permission bits of the regular files the runs start from
FileModes == {
    PermBits,
    {"S_ISUID", "S_ISGID", "S_IRUSR", "S_IWUSR", "S_IXUSR", "S_IRGRP", "S_IXGRP", "S_IROTH", "S_IXOTH"},
    {"S_IRUSR", "S_IWUSR", "S_IRGRP", "S_IWGRP", "S_IROTH", "S_IWOTH"},
    {"S_IWUSR"}
}

DirMode == PermBits \ {"S_ISUID", "S_ISGID"}

Tree(mode, owner) ==
    LET dir == [type |-> "dir", mode |-> DirMode, uid |-> 0, len |-> 0, data |-> <<>>]
        reg == [type |-> "reg", mode |-> mode, uid |-> owner, len |-> MaxLen,
                data |-> [i \in 1..MaxLen |-> "a"]]
    IN  [k \in {<<BackStratum, PathX>>, <<BackStratum, SV_DIR>>,
                <<BackStratum, PathX \o FileName>>, <<BackStratum, SV_DIR \o FileName>>} |->
            IF k[2] \in {PathX, SV_DIR} THEN dir ELSE reg]

OpenFlags == {[acc |-> a, trunc |-> t] : a \in {O_RDONLY, O_WRONLY, O_RDWR}, t \in BOOLEAN}

BackLast(op, uid, rv, st_mode, modified) ==
    [op |-> op, kind |-> "other", uid |-> uid, res |-> Res(rv), changed |-> modified,
     gave |-> FALSE, st_mode |-> st_mode]

BackInit ==
    /\ EtcIdle
    /\ cfgs = <<>>
    /\ cfg_size = 0
    /\ root_fds = [fd \in FdPool |-> Closed]
    /\ \E mode \in FileModes, owner \in Uids : files = Tree(mode, owner)
    /\ x_last = BackLast("none", 0, 0, {}, FALSE)

BackConfig(buf) ==
    \E r \in {m_write(St, Root, CFG_PATH, buf, "none")} :
    /\ WithinBounds(r.st)
    /\ r.st # St
    /\ cfgs' = r.st.cfgs
    /\ cfg_size' = r.st.size
    /\ root_fds' = r.st.fds
    /\ x_last' = BackLast("config", 0, r.rv, {}, FALSE)
    /\ UNCHANGED <<files, etc_vars>>

BackOpen(req, ipath, flags) ==
    \E r \in {m_open(St, req, ipath, flags, files)} :
    /\ files' = r.fs
    /\ x_last' = BackLast("open", req.uid, r.rv, {}, r.fs # files)
    /\ UNCHANGED <<cfgs, cfg_size, root_fds, etc_vars>>

\* libfuse hands getattr a zeroed struct stat
BackGetattr(req, ipath) ==
    \E r \in {m_getattr(St, req, ipath, files, {})} :
    /\ x_last' = BackLast("getattr", req.uid, r.rv, r.st_mode, FALSE)
    /\ UNCHANGED <<cfgs, cfg_size, root_fds, files, etc_vars>>

BackWrite(req, ipath, buf) ==
    \E r \in {m_write(St, req, ipath, buf, "none")} :
    /\ ipath # CFG_PATH
    /\ x_last' = BackLast("write", req.uid, r.rv, {}, r.st # St)
    /\ UNCHANGED <<cfgs, cfg_size, root_fds, files, etc_vars>>

BackReqs == {Req(uid, 0) : uid \in Uids}

BackNext ==
    \/ \E buf \in BackCmds : BackConfig(buf)
    \/ \E req \in BackReqs, ipath \in BackPaths, flags \in OpenFlags : BackOpen(req, ipath, flags)
    \/ \E req \in BackReqs, ipath \in BackPaths : BackGetattr(req, ipath)
    \/ \E req \in BackReqs, ipath \in BackPaths : BackWrite(req, ipath, ClearCmd)

SpecBack == BackInit /\ [][BackNext]_vars

\* C6: a write on a path other than the config file returns -EROFS, and an open
\* with a write access mode on a CLASS_BACK path fails and leaves every backing
\* file as it was
C6_ReadOnlyOutsideConfig ==
    \A req \in BackReqs, ipath \in BackPaths :
        /\ m_write(St, req, ipath, ClearCmd, "none").rv = -EROFS
        /\ \A flags \in OpenFlags :
              (classify_ipath(cfgs, ipath).class = CLASS_BACK /\ flags.acc # O_RDONLY) =>
                  LET r == m_open(St, req, ipath, flags, files)
                  IN  r.rv < 0 /\ r.fs = files

\* C10: for every CLASS_BACK ipath under every filter, a getattr that succeeds
\* reports an st_mode without S_ISUID, S_ISGID, S_ISVTX, S_IWUSR, S_IWGRP, S_IWOTH
C10_MaskedMode ==
    \A req \in BackReqs, ipath \in BackPaths :
        classify_ipath(cfgs, ipath).class = CLASS_BACK =>
            LET r == m_getattr(St, req, ipath, files, {})
            IN  r.rv >= 0 => r.st_mode \cap MaskedBits = {}

\* a getattr of a backing regular file that carries masked bits has succeeded
C10_Witness ==
    /\ x_last.op = "getattr" /\ x_last.res = 0
    /\ "S_IFREG" \in x_last.st_mode
    /\ x_last.st_mode \cap MaskedBits = {}
    /\ cfgs # <<>>
    /\ \A k \in DOMAIN files : files[k].type = "reg" => {"S_ISUID", "S_IWUSR"} \subseteq files[k].mode

(***************************************************************************)
(* etcfs: constants                                                        *)
(***************************************************************************)
CFG_NAME == Tail(CFG_PATH)
ERANGE == 34
EDOM == 33
CMD_ADD_GLOBAL == <<"a", "d", "d", "_", "g", "l", "o", "b", "a", "l">>
CMD_RM_GLOBAL == <<"r", "m", "_", "g", "l", "o", "b", "a", "l">>
CMD_ADD_OVERRIDE == <<"a", "d", "d", "_", "o", "v", "e", "r", "r", "i", "d", "e">>
CMD_RM_OVERRIDE == <<"r", "m", "_", "o", "v", "e", "r", "r", "i", "d", "e">>
ATOMIC_UPDATE_SUFFIX ==
    <<"-", "b", "e", "d", "r", "o", "c", "k", "-", "b", "a", "c", "k", "u", "p">>

TYPE_SYMLINK == "TYPE_SYMLINK"
TYPE_DIRECTORY == "TYPE_DIRECTORY"
TYPE_INJECT == "TYPE_INJECT"
OTypes == <<TYPE_SYMLINK, TYPE_DIRECTORY, TYPE_INJECT>>

o_type_str ==
    [t \in {OTypes[i] : i \in 1..Len(OTypes)} |->
        CASE t = TYPE_SYMLINK -> <<"s", "y", "m", "l", "i", "n", "k">>
          [] t = TYPE_DIRECTORY -> <<"d", "i", "r", "e", "c", "t", "o", "r", "y">>
          [] t = TYPE_INJECT -> <<"i", "n", "j", "e", "c", "t">>]

\* the reference directories of FS_IMP_SETUP, and the server's own root for
\* the absolute path of an inject source
LocalRef == "local_ref_fd"
GlobalRef == "global_ref_fd"
ProcRoot == "/"

EtcSt(g, o, sz, f) == [globals |-> g, overrides |-> o, size |-> sz, files |-> f]

GlobalFmt == <<"s", "c", "s", "c">>
OverrideFmt == <<"s", "c", "s", "c", "s", "c", "s", "c">>

\* the loops over globals[]: the first index holding path, 0 when none does
GlobalIndex(gl, path) ==
    IF \E i \in 1..Len(gl) : gl[i] = path
    THEN CHOOSE i \in 1..Len(gl) : gl[i] = path /\ \A j \in 1..(i - 1) : gl[j] # path
    ELSE 0

\* the loops over overrides[]: the first index whose path is path, 0 when none
OverrideIndex(ov, path) ==
    IF \E i \in 1..Len(ov) : ov[i].path = path
    THEN CHOOSE i \in 1..Len(ov) : ov[i].path = path /\ \A j \in 1..(i - 1) : ov[j].path # path
    ELSE 0

(***************************************************************************)
(* etcfs: the files below the reference directories.  A file is            *)
(* [type, uid, gid, mode, data]; data is the byte content of a regular     *)
(* file and the target of a symlink.                                       *)
(***************************************************************************)
NoFile == [type |-> "absent", uid |-> 0, gid |-> 0, mode |-> {}, data |-> <<>>]

EtcLookup(fs, ref, rpath) ==
    IF <<ref, rpath>> \in DOMAIN fs THEN fs[<<ref, rpath>>] ELSE NoFile

EtcStore(fs, ref, rpath, f) ==
    [k \in (DOMAIN fs) \cup {<<ref, rpath>>} |-> IF k = <<ref, rpath>> THEN f ELSE fs[k]]

\* strstr(buf, inject): offset of the first match, -1 when there is none
StrstrOffset(buf, w) ==
    IF Strstr(buf, w)
    THEN (CHOOSE i \in 1..(Len(buf) - Len(w) + 1) :
             /\ SubSeq(buf, i, i + Len(w) - 1) = w
             /\ \A j \in 1..(i - 1) : SubSeq(buf, j, j + Len(w) - 1) # w) - 1
    ELSE -1

\* the search loop of uninject: buf keeps the bytes of the previous read
\* behind a short read; the file position restarts at inject_len * multiple
RECURSIVE UninjectScan(_, _, _, _)
UninjectScan(data, inj, multiple, buf) ==
    LET pos == multiple * Len(inj)
        chunk == SubSeq(data, pos + 1, Min2(pos + 2 * Len(inj), Len(data)))
        nbuf == chunk \o SubSeq(buf, Len(chunk) + 1, 2 * Len(inj))
        k == StrstrOffset(nbuf, inj)
    IN  IF chunk = <<>> THEN -1
        ELSE IF k >= 0 THEN k + pos
        ELSE UninjectScan(data, inj, multiple + 1, nbuf)

\* the temporary file of inject and uninject: rpath-bedrock-backup is unlinked,
\* created with the mode of the original by the serving thread, filled, and
\* renamed over rpath
AtomicReplace(fs, ref, rpath, data, cr) ==
    LET tmp == rpath \o ATOMIC_UPDATE_SUFFIX
        old == EtcLookup(fs, ref, rpath)
        new == [type |-> "reg", uid |-> cr.euid, gid |-> cr.egid, mode |-> old.mode,
                data |-> data]
    IN  IF EtcLookup(fs, ref, tmp).type = "dir" THEN [rv |-> -1, fs |-> fs]
        ELSE [rv |-> 0,
              fs |-> [k \in ((DOMAIN fs) \cup {<<ref, rpath>>}) \ {<<ref, tmp>>} |->
                         IF k = <<ref, rpath>> THEN new ELSE fs[k]]]

\* stack: the bytes buf[] holds before the first read
uninject(fs, ref, rpath, inj, cr, stack) ==
    LET f == EtcLookup(fs, ref, rpath)
        offset == UninjectScan(f.data, inj, 0, [i \in 1..(2 * Len(inj)) |-> stack])
    IN  IF f.type \in {"absent", "lnk"} THEN [rv |-> -1, fs |-> fs]
        ELSE IF f.type = "dir" THEN [rv |-> 0, fs |-> fs]
        ELSE IF Len(f.data) < Len(inj) THEN [rv |-> 0, fs |-> fs]
        ELSE IF offset < 0 THEN [rv |-> 0, fs |-> fs]
        ELSE AtomicReplace(fs, ref, rpath,
                 SubSeq(f.data, 1, Min2(offset, Len(f.data) - Len(inj)))
                     \o SubSeq(f.data, offset + Len(inj) + 1, Len(f.data)),
                 cr)

\* inject without file_search: the bytes are appended to every file that is
\* not empty
inject_AlwaysAppends(fs, ref, rpath, inj, cr) ==
    LET f == EtcLookup(fs, ref, rpath)
    IN  IF f.type # "reg" THEN [rv |-> -1, fs |-> fs]
        ELSE IF f.data = <<>> THEN [rv |-> 0, fs |-> fs]
        ELSE AtomicReplace(fs, ref, rpath, f.data \o inj, cr)

\* file_search: memmem over the whole file
inject(fs, ref, rpath, inj, cr) ==
    LET f == EtcLookup(fs, ref, rpath)
    IN  IF f.type \in {"absent", "lnk"} THEN [rv |-> -1, fs |-> fs]
        ELSE IF f.type = "dir" THEN [rv |-> -1, fs |-> fs]
        ELSE IF f.data = <<>> THEN [rv |-> 0, fs |-> fs]
        ELSE IF Len(f.data) >= Len(inj) /\ Strstr(f.data, inj) THEN [rv |-> 0, fs |-> fs]
        ELSE AtomicReplace(fs, ref, rpath, f.data \o inj, cr)

(***************************************************************************)
(* etcfs: configuration commands.  Each returns the state afterwards and   *)
(* the value the C function returns; fail names the allocation that fails. *)
(***************************************************************************)
cfg_add_global(st, buf, fail) ==
    With(sscanf(buf, GlobalFmt, 1), LAMBDA t :
    IF Len(buf) > PIPE_BUF - 1 THEN Ret(st, -ENAMETOOLONG)
    ELSE IF Len(t) # 4 THEN Ret(st, -EINVAL)
    ELSE IF t[1] # CMD_ADD_GLOBAL \/ t[2] # Sp \/ t[4] # Nl \/ ~Contains(t[3], "/")
         THEN Ret(st, -EINVAL)
    ELSE IF GlobalIndex(st.globals, t[3]) # 0 THEN Ret(st, 0)
    ELSE IF fail = "malloc" THEN Ret(st, -ENOMEM)
    ELSE Ret([st EXCEPT !.globals = Append(@, t[3]),
                        !.size = @ + Len(<<"g", "l", "o", "b", "a", "l", " ">>) + Len(t[3]) + Len(Nl)],
             Len(buf)))

cfg_rm_global(st, buf) ==
    With(sscanf(buf, GlobalFmt, 1), LAMBDA t :
    IF Len(buf) > PIPE_BUF - 1 THEN Ret(st, -ENAMETOOLONG)
    ELSE IF Len(t) # 4 THEN Ret(st, -EINVAL)
    ELSE IF t[1] # CMD_RM_GLOBAL \/ t[2] # Sp \/ t[4] # Nl \/ ~Contains(t[3], "/")
         THEN Ret(st, -EINVAL)
    ELSE LET i == GlobalIndex(st.globals, t[3]) IN
         IF i = 0 THEN Ret(st, Len(buf))
         ELSE Ret([st EXCEPT !.globals = SwapRemove(@, i),
                             !.size = @ - (Len(<<"g", "l", "o", "b", "a", "l", " ">>)
                                           + Len(st.globals[i]) + Len(Nl))],
                  Len(buf)))

OverrideLen(o) ==
    Len(<<"o", "v", "e", "r", "r", "i", "d", "e", " ">>) + Len(o_type_str[o.type]) + Len(Sp)
        + Len(o.path) + Len(Sp) + Len(o.content) + Len(Nl)

\* cr: the credentials of the serving thread; stack: see uninject
cfg_add_override(st, buf, cr, stack, fail) ==
    With(sscanf(buf, OverrideFmt, 1), LAMBDA t :
    IF Len(buf) > PIPE_BUF - 1 THEN Ret(st, -ENAMETOOLONG)
    ELSE IF Len(t) # 8 THEN Ret(st, -EINVAL)
    ELSE IF \/ t[1] # CMD_ADD_OVERRIDE
            \/ t[2] # Sp \/ t[4] # Sp \/ t[6] # Sp \/ t[8] # Nl
            \/ ~Contains(t[5], "/")
         THEN Ret(st, -EINVAL)
    ELSE IF \A i \in 1..Len(OTypes) : o_type_str[OTypes[i]] # t[3] THEN Ret(st, -EINVAL)
    ELSE
    LET type == OTypes[CHOOSE i \in 1..Len(OTypes) : o_type_str[OTypes[i]] = t[3]]
        buf_path == t[5]
        buf_content == t[7]
        src == EtcLookup(st.files, ProcRoot, buf_content)
        inj == IF type = TYPE_INJECT THEN src.data ELSE NULL
        same == {i \in 1..Len(st.overrides) :
                    st.overrides[i].path = buf_path /\ st.overrides[i].type = type}
    IN  IF type = TYPE_INJECT /\ (src.type # "reg" \/ fail = "malloc") THEN Ret(st, -EINVAL)
        ELSE IF type = TYPE_INJECT /\ same # {} THEN
            LET i == CHOOSE i \in same : \A j \in same : i <= j
                u == uninject(st.files, LocalRef, Tail(st.overrides[i].path),
                              st.overrides[i].inject, cr, stack)
            IN  Ret([st EXCEPT !.files = u.fs, !.overrides[i].inject = inj], 0)
        ELSE IF OverrideIndex(st.overrides, buf_path) # 0 THEN Ret(st, 0)
        ELSE IF fail = "malloc" THEN Ret(st, -EINVAL)
        ELSE LET o == [path |-> buf_path, type |-> type, content |-> buf_content,
                       inject |-> inj, last_override |-> 0]
             IN  Ret([st EXCEPT !.overrides = Append(@, o), !.size = @ + OverrideLen(o)],
                     Len(buf)))

cfg_rm_override(st, buf, cr, stack) ==
    With(sscanf(buf, GlobalFmt, 1), LAMBDA t :
    IF Len(buf) > PIPE_BUF - 1 THEN Ret(st, -ENAMETOOLONG)
    ELSE IF Len(t) # 4 THEN Ret(st, -EINVAL)
    ELSE IF t[1] # CMD_RM_OVERRIDE \/ t[2] # Sp \/ t[4] # Nl THEN Ret(st, -EINVAL)
    ELSE LET i == OverrideIndex(st.overrides, t[3]) IN
         IF i = 0 THEN Ret(st, Len(buf))
         ELSE LET o == st.overrides[i]
                  fs == IF o.type = TYPE_INJECT
                        THEN uninject(st.files, LocalRef, Tail(o.path), o.inject, cr, stack).fs
                        ELSE st.files
              IN  Ret([st EXCEPT !.files = fs,
                                 !.overrides = SwapRemove(@, i),
                                 !.size = @ - OverrideLen(o)],
                      Len(buf)))

RECURSIVE EtcGlobalLines(_)
EtcGlobalLines(gl) ==
    IF gl = <<>> THEN <<>>
    ELSE <<"g", "l", "o", "b", "a", "l">> \o Sp \o Head(gl) \o Nl \o EtcGlobalLines(Tail(gl))

RECURSIVE EtcOverrideLines(_)
EtcOverrideLines(ov) ==
    IF ov = <<>> THEN <<>>
    ELSE <<"o", "v", "e", "r", "r", "i", "d", "e">> \o Sp \o o_type_str[Head(ov).type] \o Sp
             \o Head(ov).path \o Sp \o Head(ov).content \o Nl \o EtcOverrideLines(Tail(ov))

EtcText(st) == EtcGlobalLines(st.globals) \o EtcOverrideLines(st.overrides)

\* cfg_read of etcfs.  memset clears st_size bytes of the st_size + 1 allocated:
\* with st_size = 0 and nothing to strcat, str[0] is never written, and heap is
\* what strlen finds there (<<>> when the byte happens to be 0)
etc_cfg_read(st, size, offset, heap) ==
    LET str == IF st.size = 0 /\ EtcText(st) = <<>> THEN heap ELSE EtcText(st)
        rest == SubSeq(str, offset + 1, Len(str))
        rv == Min2(Len(rest), size)
    IN  [rv |-> rv, text |-> SubSeq(rest, 1, rv)]

(***************************************************************************)
(* etcfs: request setup.  A caller is the fuse_context of the request:     *)
(* [uid, gid, groups, visible]; groups is what fuse_getgroups reads from   *)
(* /proc/<pid>, visible is FALSE when that read fails.                     *)
(***************************************************************************)
ListLen == 64     \* ARRAY_LEN(list)
\* (gid_t)-1, the gid no user namespace maps
InvalidGid == 0 - 1

\* the system call of the setup that fails in a request, if any; "getgroups2"
\* is the caller's /proc entry vanishing before the second fuse_getgroups
\* sys is one of "none", "seteuid0", "malloc", "getgroups2", "setgroups",
\* "setregid", "setreuid"

\* setgroups(2) by a thread with euid 0: EINVAL for a gid that is not valid
SET_THREAD_GROUPS(cr, gids, sys) ==
    IF sys = "setgroups" \/ \E i \in 1..Len(gids) : gids[i] = InvalidGid
    THEN [rv |-> -1, cr |-> cr]
    ELSE [rv |-> 0, cr |-> [cr EXCEPT !.groups = gids]]

SetIds(cr, ctx, sys) ==
    IF sys = "setregid" THEN [rv |-> -1, cr |-> cr]
    ELSE IF sys = "setreuid" THEN [rv |-> -1, cr |-> [cr EXCEPT !.egid = ctx.gid]]
    ELSE [rv |-> 0, cr |-> [cr EXCEPT !.egid = ctx.gid, !.euid = ctx.uid]]

\* the group list part of set_caller_permissions.  With more than ListLen
\* groups the second fuse_getgroups stores all of them through list (ListLen
\* entries long) and setgroups is handed list_heap, which nothing has written:
\* heap is the content malloc returned
SetGroupsOf(cr, ctx, sys, heap) ==
    IF ~ctx.visible THEN SET_THREAD_GROUPS(cr, <<>>, sys)
    ELSE IF Len(ctx.groups) <= ListLen THEN SET_THREAD_GROUPS(cr, ctx.groups, sys)
    ELSE IF sys = "malloc" THEN [rv |-> -ENOMEM, cr |-> cr]
    ELSE IF sys = "getgroups2" THEN [rv |-> Len(ctx.groups), cr |-> cr]
    ELSE SET_THREAD_GROUPS(cr, heap, sys)

set_caller_permissions(cr, ctx, sys, heap) ==
    LET g == SetGroupsOf(cr, ctx, sys, heap)
    IN  IF g.rv # 0 THEN g ELSE SetIds(g.cr, ctx, sys)

get_ref_fd(gl, path) == IF GlobalIndex(gl, path) # 0 THEN GlobalRef ELSE LocalRef

RPath(path) == IF Len(path) >= 2 THEN Tail(path) ELSE <<".">>

HasChildren(fs, ref, rpath) ==
    \E k \in DOMAIN fs :
        /\ k[1] = ref
        /\ HasPrefix(k[2], rpath \o <<"/">>)
        /\ fs[k].type # "absent"

\* unlinkat(ref_fd, rpath, 0); unlinkat(ref_fd, rpath, AT_REMOVEDIR)
Unlinked(fs, ref, rpath) ==
    IF EtcLookup(fs, ref, rpath).type = "dir" /\ HasChildren(fs, ref, rpath) THEN fs
    ELSE [k \in (DOMAIN fs) \ {<<ref, rpath>>} |-> fs[k]]

\* symlinkat / mkdirat without the two unlinkat calls before it
Enforce_NoUnlink(st, i, ref, rpath, now, cr, f) ==
    IF EtcLookup(st.files, ref, rpath).type # "absent"
    THEN [rv |-> -1, st |-> [st EXCEPT !.overrides[i].last_override = now]]
    ELSE [rv |-> 0,
          st |-> [st EXCEPT !.overrides[i].last_override = now,
                            !.files = EtcStore(@, ref, rpath, f)]]

\* symlinkat / mkdirat after the two unlinkat calls, by the serving thread
Enforce(st, i, ref, rpath, now, cr, f) ==
    LET fs == Unlinked(st.files, ref, rpath)
    IN  IF EtcLookup(fs, ref, rpath).type # "absent"
        THEN [rv |-> -1, st |-> [st EXCEPT !.overrides[i].last_override = now, !.files = fs]]
        ELSE [rv |-> 0,
              st |-> [st EXCEPT !.overrides[i].last_override = now,
                                !.files = EtcStore(fs, ref, rpath, f)]]

apply_override(st, ref, path, rpath, now, cr) ==
    LET i == OverrideIndex(st.overrides, path)
        o == st.overrides[i]
        f == EtcLookup(st.files, ref, rpath)
        recent == (now - o.last_override) <= 1
    IN  IF i = 0 THEN [rv |-> 0, st |-> st]
        ELSE CASE o.type = TYPE_SYMLINK ->
                    IF (f.type = "lnk" /\ f.data = o.content) \/ recent THEN [rv |-> 0, st |-> st]
                    ELSE Enforce(st, i, ref, rpath, now, cr,
                             [type |-> "lnk", uid |-> cr.euid, gid |-> cr.egid,
                              mode |-> PermBits \ {"S_ISUID", "S_ISGID", "S_ISVTX"},
                              data |-> o.content])
               [] o.type = TYPE_DIRECTORY ->
                    IF f.type = "dir" \/ recent THEN [rv |-> 0, st |-> st]
                    ELSE Enforce(st, i, ref, rpath, now, cr,
                             [type |-> "dir", uid |-> cr.euid, gid |-> cr.egid,
                              mode |-> {"S_IRUSR", "S_IWUSR", "S_IXUSR", "S_IRGRP", "S_IXGRP",
                                        "S_IROTH", "S_IXOTH"},
                              data |-> <<>>])
               [] o.type = TYPE_INJECT ->
                    IF f.type # "reg" \/ recent THEN [rv |-> 0, st |-> st]
                    ELSE LET r == inject(st.files, ref, rpath, o.inject, cr)
                         IN  [rv |-> r.rv,
                              st |-> [st EXCEPT !.overrides[i].last_override = now,
                                                !.files = r.fs]]

\* FS_IMP_SETUP: the value it returns early with (0 when the handler goes on),
\* the state after apply_override and the thread's credentials.  get_ref_fd
\* returns one of the two descriptors main() opened, so -EDOM is not returned.
EtcSetup(st, cr, ctx, path, now, sys, heap) ==
    LET cr0 == [cr EXCEPT !.euid = 0]
        ref == get_ref_fd(st.globals, path)
        rpath == RPath(path)
    IN  IF sys = "seteuid0" THEN [rv |-> -EPERM, st |-> st, cr |-> cr, ref |-> ref, rpath |-> rpath]
        ELSE With(apply_override(st, ref, path, rpath, now, cr0), LAMBDA a :
             IF a.rv < 0
             THEN [rv |-> -ERANGE, st |-> a.st, cr |-> cr0, ref |-> ref, rpath |-> rpath]
             ELSE With(set_caller_permissions(cr0, ctx, sys, heap), LAMBDA p :
                  [rv |-> IF p.rv < 0 THEN -EPERM ELSE 0, st |-> a.st, cr |-> p.cr,
                   ref |-> ref, rpath |-> rpath]))

\* FS_IMP_RETURN: rv >= 0 ? rv : -errno
EtcReturn(rv, errno) == IF rv >= 0 THEN rv ELSE -errno

(***************************************************************************)
(* etcfs: handlers.  env is what the request finds around it: now (the     *)
(* clock), sys (a failing system call of the setup), heap and stack        *)
(* (memory the code reads before writing it), errno (the thread's errno    *)
(* when the handler starts) and fail (a failing allocation of a command).  *)
(* A handler returns rv, the state and credentials afterwards, the text it *)
(* copied out, and ran: the credentials each underlying file system call   *)
(* served after apply_override ran with.                                   *)
(***************************************************************************)
EtcOut(rv, st, cr, text, ran) == [rv |-> rv, st |-> st, cr |-> cr, text |-> text, ran |-> ran]

\* the kernel's permission check for a thread with these credentials
EtcMayAccess(f, cr, want) ==
    IF cr.euid = 0 THEN TRUE
    ELSE IF cr.euid = f.uid THEN (IF want = "r" THEN "S_IRUSR" ELSE "S_IWUSR") \in f.mode
    ELSE IF f.gid = cr.egid \/ \E i \in 1..Len(cr.groups) : cr.groups[i] = f.gid
         THEN (IF want = "r" THEN "S_IRGRP" ELSE "S_IWGRP") \in f.mode
    ELSE (IF want = "r" THEN "S_IROTH" ELSE "S_IWOTH") \in f.mode

\* openat(ref_fd, rpath, flags) without O_CREAT: 0 or the errno it fails with
openat(fs, ref, rpath, flags, cr) ==
    LET f == EtcLookup(fs, ref, rpath) IN
    IF f.type = "absent" THEN ENOENT
    ELSE IF f.type = "lnk" THEN (IF flags.nofollow THEN ELOOP ELSE ENOENT)
    ELSE IF f.type = "dir" /\ flags.acc # O_RDONLY THEN EISDIR
    ELSE IF flags.acc \in {O_RDONLY, O_RDWR} /\ ~EtcMayAccess(f, cr, "r") THEN EACCES
    ELSE IF flags.acc \in {O_WRONLY, O_RDWR} /\ ~EtcMayAccess(f, cr, "w") THEN EACCES
    ELSE 0

etc_m_getattr(st, cr, ctx, path, env) ==
    With(EtcSetup(st, cr, ctx, path, env.now, env.sys, env.heap), LAMBDA s :
    IF s.rv < 0 THEN EtcOut(s.rv, s.st, s.cr, <<>>, {})
    ELSE IF s.rpath = CFG_NAME THEN EtcOut(0, s.st, s.cr, <<>>, {})
    ELSE EtcOut(EtcReturn(IF EtcLookup(s.st.files, s.ref, s.rpath).type = "absent" THEN -1 ELSE 0,
                          ENOENT),
                s.st, s.cr, <<>>, {s.cr}))

etc_m_open(st, cr, ctx, path, flags, env) ==
    With(EtcSetup(st, cr, ctx, path, env.now, env.sys, env.heap), LAMBDA s :
    IF s.rv < 0 THEN EtcOut(s.rv, s.st, s.cr, <<>>, {})
    ELSE IF s.rpath = CFG_NAME
         THEN EtcOut(IF ctx.uid # 0 THEN EtcReturn(-1, EACCES) ELSE EtcReturn(0, env.errno),
                     s.st, s.cr, <<>>, {})
    ELSE LET e == openat(s.st.files, s.ref, s.rpath, [acc |-> flags.acc, nofollow |-> FALSE], s.cr)
             f == EtcLookup(s.st.files, s.ref, s.rpath)
         IN  EtcOut(EtcReturn(IF e # 0 THEN -1 ELSE 0, e),
                    IF e = 0 /\ flags.trunc /\ flags.acc # O_RDONLY
                    THEN [s.st EXCEPT !.files = EtcStore(@, s.ref, s.rpath, [f EXCEPT !.data = <<>>])]
                    ELSE s.st,
                    s.cr, <<>>, {s.cr}))

etc_m_read(st, cr, ctx, path, size, offset, env) ==
    With(EtcSetup(st, cr, ctx, path, env.now, env.sys, env.heap), LAMBDA s :
    IF s.rv < 0 THEN EtcOut(s.rv, s.st, s.cr, <<>>, {})
    ELSE IF s.rpath = CFG_NAME THEN
        IF ctx.uid = 0
        THEN LET r == etc_cfg_read(s.st, size, offset, env.heap)
             IN  EtcOut(EtcReturn(r.rv, env.errno), s.st, s.cr, r.text, {})
        ELSE EtcOut(EtcReturn(-1, EACCES), s.st, s.cr, <<>>, {})
    ELSE LET e == openat(s.st.files, s.ref, s.rpath, [acc |-> O_RDONLY, nofollow |-> TRUE], s.cr)
             f == EtcLookup(s.st.files, s.ref, s.rpath)
             rest == SubSeq(f.data, offset + 1, Len(f.data))
             n == Min2(Len(rest), size)
         IN  IF e # 0 THEN EtcOut(EtcReturn(-1, e), s.st, s.cr, <<>>, {s.cr})
             ELSE IF f.type = "dir" THEN EtcOut(EtcReturn(-1, EISDIR), s.st, s.cr, <<>>, {s.cr})
             ELSE EtcOut(EtcReturn(n, env.errno), s.st, s.cr, SubSeq(rest, 1, n), {s.cr}))

\* the errno FS_IMP_RETURN finds after a command returned the negative r.rv:
\* what the last failing call of the command left, else the thread's own
CommandErrno(st, buf, env, r) ==
    With(sscanf(buf, OverrideFmt, 1), LAMBDA t :
    LET src == EtcLookup(st.files, ProcRoot, t[7])
    IN  IF /\ HasPrefix(buf, CMD_ADD_OVERRIDE)
           /\ Len(buf) <= PIPE_BUF - 1
           /\ Len(t) = 8
           /\ t[1] = CMD_ADD_OVERRIDE /\ t[2] = Sp /\ t[4] = Sp /\ t[6] = Sp /\ t[8] = Nl
           /\ Contains(t[5], "/")
           /\ \E i \in 1..Len(OTypes) : o_type_str[OTypes[i]] = t[3]
        THEN IF t[3] = o_type_str[TYPE_INJECT] /\ src.type \in {"absent", "lnk"} THEN EBADF
             ELSE IF t[3] = o_type_str[TYPE_INJECT] /\ src.type = "dir" THEN EISDIR
             ELSE ENOMEM
        ELSE IF r.rv = -ENOMEM THEN ENOMEM
        ELSE env.errno)

\* the zero byte of a hole
NulByte == "NUL"

\* pwrite(fd, buf, size, offset) on the bytes of a file
Pwrite(data, buf, offset) ==
    [i \in 1..(IF offset + Len(buf) > Len(data) THEN offset + Len(buf) ELSE Len(data)) |->
        IF i > offset /\ i <= offset + Len(buf) THEN buf[i - offset]
        ELSE IF i <= Len(data) THEN data[i]
        ELSE NulByte]

\* the dispatch of m_write on the config file: strncmp(buf, CMD, CMD_LEN) == 0
EtcCommand(st, buf, cr, env) ==
    IF HasPrefix(buf, CMD_ADD_GLOBAL) THEN cfg_add_global(st, buf, env.fail)
    ELSE IF HasPrefix(buf, CMD_RM_GLOBAL) THEN cfg_rm_global(st, buf)
    ELSE IF HasPrefix(buf, CMD_ADD_OVERRIDE) THEN cfg_add_override(st, buf, cr, env.stack, env.fail)
    ELSE IF HasPrefix(buf, CMD_RM_OVERRIDE) THEN cfg_rm_override(st, buf, cr, env.stack)
    ELSE Ret(st, -1)

etc_m_write(st, cr, ctx, path, buf, offset, env) ==
    With(EtcSetup(st, cr, ctx, path, env.now, env.sys, env.heap), LAMBDA s :
    IF s.rv < 0 THEN EtcOut(s.rv, s.st, s.cr, <<>>, {})
    ELSE IF s.rpath = CFG_NAME THEN
        IF ctx.uid # 0 THEN EtcOut(EtcReturn(-1, EACCES), s.st, s.cr, <<>>, {})
        ELSE With(EtcCommand(s.st, buf, s.cr, env), LAMBDA r :
             LET known == \E c \in {CMD_ADD_GLOBAL, CMD_RM_GLOBAL, CMD_ADD_OVERRIDE,
                                    CMD_RM_OVERRIDE} : HasPrefix(buf, c)
                 errno == IF known THEN CommandErrno(s.st, buf, env, r) ELSE EINVAL
                 touched == HasPrefix(buf, CMD_ADD_OVERRIDE) \/ HasPrefix(buf, CMD_RM_OVERRIDE)
             IN  EtcOut(EtcReturn(r.rv, errno), r.st, s.cr, <<>>,
                        IF touched THEN {s.cr} ELSE {}))
    ELSE LET e == openat(s.st.files, s.ref, s.rpath, [acc |-> O_WRONLY, nofollow |-> TRUE], s.cr)
             f == EtcLookup(s.st.files, s.ref, s.rpath)
         IN  IF e # 0 THEN EtcOut(EtcReturn(-1, e), s.st, s.cr, <<>>, {s.cr})
             ELSE EtcOut(EtcReturn(Len(buf), env.errno),
                         [s.st EXCEPT !.files = EtcStore(@, s.ref, s.rpath,
                                                   [f EXCEPT !.data = Pwrite(f.data, buf, offset)])],
                         s.cr, <<>>, {s.cr}))

(***************************************************************************)
(* Requests on the config pseudo-files of crossfs and etcfs by every       *)
(* caller: SpecGate                                                        *)
(***************************************************************************)
ESt == EtcSt(globals, overrides, e_size, e_files)

ETC_CFG_PATH == <<"/">> \o CFG_NAME

AddGlobalCmd(path) == Concat(<<CMD_ADD_GLOBAL, Sp, path, Nl>>)
RmGlobalCmd(path) == Concat(<<CMD_RM_GLOBAL, Sp, path, Nl>>)
AddOverrideCmd(type, path, content) ==
    Concat(<<CMD_ADD_OVERRIDE, Sp, o_type_str[type], Sp, path, Sp, content, Nl>>)
RmOverrideCmd(path) == Concat(<<CMD_RM_OVERRIDE, Sp, path, Nl>>)

Gid(i) == 100 + i
Groups(n) == [i \in 1..n |-> Gid(i)]

Caller(uid, gid, groups, visible) ==
    [uid |-> uid, gid |-> gid, groups |-> groups, visible |-> visible]

Env(now, sys, heap, fail) ==
    [now |-> now, sys |-> sys, heap |-> heap, errno |-> 0, stack |-> " ", fail |-> fail]

\* the configuration of etcfs: what the config file serializes, and the
\* content to inject
EtcConfig(st) ==
    [globals |-> st.globals,
     overrides |-> [i \in 1..Len(st.overrides) |->
                       [path |-> st.overrides[i].path, type |-> st.overrides[i].type,
                        content |-> st.overrides[i].content, inject |-> st.overrides[i].inject]],
     size |-> st.size]

EtcKind(buf) ==
    IF HasPrefix(buf, CMD_ADD_GLOBAL) \/ HasPrefix(buf, CMD_ADD_OVERRIDE) THEN "add"
    ELSE IF HasPrefix(buf, CMD_RM_GLOBAL) \/ HasPrefix(buf, CMD_RM_OVERRIDE) THEN "rm"
    ELSE "other"

EtcLast(op, kind, ctx, r, before) ==
    [op |-> op, kind |-> kind, uid |-> ctx.uid, res |-> Res(r.rv),
     changed |-> EtcConfig(r.st) # EtcConfig(before), gave |-> r.text # <<>>, ran |-> r.ran]

EtcServe(op, kind, ctx, r) ==
    /\ globals' = r.st.globals
    /\ overrides' = r.st.overrides
    /\ e_size' = r.st.size
    /\ e_files' = r.st.files
    /\ creds' = r.cr
    /\ e_last' = EtcLast(op, kind, ctx, r, ESt)
    /\ UNCHANGED <<e_now, cross_vars>>

EtcWrite(ctx, path, buf, env) ==
    \E r \in {etc_m_write(ESt, creds, ctx, path, buf, 0, env)} :
        /\ Len(r.st.globals) <= MaxCfg
        /\ Len(r.st.overrides) <= MaxCfg
        /\ EtcServe("write", EtcKind(buf), ctx, r)

EtcRead(ctx, path, env) ==
    \E r \in {etc_m_read(ESt, creds, ctx, path, PIPE_BUF, 0, env)} :
        EtcServe("read", "other", ctx, r)

EtcOpen(ctx, path, flags, env) ==
    \E r \in {etc_m_open(ESt, creds, ctx, path, flags, env)} :
        EtcServe("open", "other", ctx, r)

EtcGetattr(ctx, path, env) ==
    \E r \in {etc_m_getattr(ESt, creds, ctx, path, env)} :
        EtcServe("getattr", "other", ctx, r)

CrossOpen(req, ipath, flags) ==
    \E r \in {m_open(St, req, ipath, flags, files)} :
        /\ files' = r.fs
        /\ x_last' = Last("open", "other", req.uid, r.rv, FALSE, FALSE)
        /\ UNCHANGED <<cfgs, cfg_size, root_fds, etc_vars>>

GateReqs == {Root} \cup {Req(uid, lsr) : uid \in Uids \ {0}, lsr \in LocalResults}
GateBufs == {AddCmd(filter_str[FILTER_BIN], PathA, BackStratum, PathX), ClearCmd}
GateFlags == {[acc |-> O_RDONLY, trunc |-> FALSE], [acc |-> O_RDWR, trunc |-> TRUE]}

PathB == <<"/", "b">>
GateEtcBufs == {AddGlobalCmd(PathA),
                AddOverrideCmd(TYPE_SYMLINK, PathB, PathX),
                RmOverrideCmd(PathB)}

GateCallers ==
    {Caller(0, 0, <<>>, TRUE)} \cup {Caller(uid, uid, Groups(1), v) : uid \in Uids \ {0}, v \in BOOLEAN}
GateEnvs == {Env(e_now, sys, <<>>, "none") : sys \in {"none", "setgroups"}}

GateInit ==
    /\ EtcIdle
    /\ cfgs = <<>>
    /\ cfg_size = 0
    /\ root_fds = [fd \in FdPool |-> Closed]
    /\ files = NoFiles
    /\ x_last = Last("none", "other", 0, 0, FALSE, FALSE)

GateNext ==
    \/ \E req \in GateReqs, buf \in GateBufs : CrossWrite(req, CFG_PATH, buf, "none")
    \/ \E req \in GateReqs : CrossRead(req, CFG_PATH)
    \/ \E req \in GateReqs, flags \in GateFlags : CrossOpen(req, CFG_PATH, flags)
    \/ \E ctx \in GateCallers, buf \in GateEtcBufs, env \in GateEnvs :
          EtcWrite(ctx, ETC_CFG_PATH, buf, env)
    \/ \E ctx \in GateCallers, env \in GateEnvs : EtcRead(ctx, ETC_CFG_PATH, env)
    \/ \E ctx \in GateCallers, flags \in GateFlags, env \in GateEnvs :
          EtcOpen(ctx, ETC_CFG_PATH, flags, env)

SpecGate == GateInit /\ [][GateNext]_vars

\* what open, read and write on the crossfs config file return to req
CrossGate(req) ==
    {[op |-> "open", rv |-> m_open(St, req, CFG_PATH, flags, files).rv, changed |-> FALSE,
      gave |-> FALSE] : flags \in GateFlags}
    \cup {[op |-> "read", rv |-> m_read(St, req, CFG_PATH, PIPE_BUF, 0).rv, changed |-> FALSE,
           gave |-> m_read(St, req, CFG_PATH, PIPE_BUF, 0).text # <<>>]}
    \cup {[op |-> "write", rv |-> m_write(St, req, CFG_PATH, buf, "none").rv,
           changed |-> m_write(St, req, CFG_PATH, buf, "none").st # St, gave |-> FALSE] :
              buf \in GateBufs}

EtcGateOut(r) ==
    [rv |-> r.rv, changed |-> EtcConfig(r.st) # EtcConfig(ESt), gave |-> r.text # <<>>]

\* what open, read and write on the etcfs config file return to ctx
EtcGate(ctx, env) ==
    {EtcGateOut(etc_m_open(ESt, creds, ctx, ETC_CFG_PATH, flags, env)) : flags \in GateFlags}
    \cup {EtcGateOut(etc_m_read(ESt, creds, ctx, ETC_CFG_PATH, PIPE_BUF, 0, env))}
    \cup {EtcGateOut(etc_m_write(ESt, creds, ctx, ETC_CFG_PATH, buf, 0, env)) : buf \in GateEtcBufs}

\* C4 as stated: every open, read and write on a config pseudo-file by a caller
\* whose uid is not 0 returns -EACCES, changes no configuration and copies out
\* no configuration text
C4_NonRootEacces ==
    /\ \A req \in GateReqs : req.uid # 0 =>
          \A o \in CrossGate(req) : o.rv = -EACCES /\ ~o.changed /\ ~o.gave
    /\ \A ctx \in GateCallers, env \in GateEnvs : ctx.uid # 0 =>
          \A o \in EtcGate(ctx, env) : o.rv = -EACCES /\ ~o.changed /\ ~o.gave

\* C4, amended: every such request fails, changes no configuration and copies
\* out no text; it fails with EACCES whenever the setup of the handler
\* (set_local_stratum in crossfs, FS_IMP_SETUP in etcfs) succeeded, and with
\* the error of the setup otherwise
C4_NonRootDenied ==
    /\ \A req \in GateReqs : req.uid # 0 =>
          \A o \in CrossGate(req) :
              /\ o.rv = (IF req.lsr < 0 THEN req.lsr ELSE -EACCES)
              /\ ~o.changed /\ ~o.gave
    /\ \A ctx \in GateCallers, env \in GateEnvs : ctx.uid # 0 =>
          \A o \in EtcGate(ctx, env) :
              /\ o.rv = (IF env.sys = "none" THEN -EACCES ELSE -EPERM)
              /\ ~o.changed /\ ~o.gave

\* both servers hold a configuration and each has just refused a caller whose
\* uid is not 0: crossfs a read, etcfs a well-formed add
C4_Witness ==
    /\ cfgs # <<>> /\ globals # <<>>
    /\ x_last.op = "read" /\ x_last.uid # 0 /\ x_last.res = EACCES /\ ~x_last.gave
    /\ e_last.op = "write" /\ e_last.kind = "add" /\ e_last.uid # 0
    /\ e_last.res = EACCES /\ ~e_last.changed

(***************************************************************************)
(* etcfs requests on the files below the reference directories by callers  *)
(* with few and with many supplementary groups: SpecPerm                   *)
(***************************************************************************)
PathF == <<"/", "f">>
PathD == <<"/", "d">>
PermPaths == {PathF, PathD}

\* /f: a file of root that its group may read and write; nothing at /d
PermTree ==
    [k \in {<<LocalRef, Tail(PathF)>>} |->
        [type |-> "reg", uid |-> 0, gid |-> Gid(1),
         mode |-> {"S_IRUSR", "S_IWUSR", "S_IRGRP", "S_IWGRP"}, data |-> <<"a">>]]

GroupCounts == {0, 1, ListLen, MaxGroups}

PermCallers ==
    {Caller(uid, uid, Groups(n), TRUE) : uid \in Uids \ {0}, n \in GroupCounts}
    \cup {Caller(uid, uid, Groups(1), FALSE) : uid \in Uids \ {0}}

\* what list_heap can hold when nothing has written it
HeapLists(ctx) ==
    IF Len(ctx.groups) <= ListLen THEN {<<>>}
    ELSE {[i \in 1..Len(ctx.groups) |-> 0], [i \in 1..Len(ctx.groups) |-> InvalidGid],
          ctx.groups}

PermSys == {"none", "getgroups2", "setgroups"}
PermEnvs(ctx) == {Env(e_now, sys, heap, "none") : sys \in PermSys, heap \in HeapLists(ctx)}

PermBufs == {AddOverrideCmd(TYPE_DIRECTORY, PathD, <<"x">>), RmOverrideCmd(PathD)}

PermInit ==
    /\ cfgs = <<>>
    /\ cfg_size = 0
    /\ root_fds = [fd \in FdPool |-> Closed]
    /\ files = NoFiles
    /\ x_last = Last("none", "other", 0, 0, FALSE, FALSE)
    /\ globals = <<>>
    /\ overrides = <<>>
    /\ e_size = 0
    /\ e_files = PermTree
    /\ creds = [euid |-> 0, egid |-> 0, groups |-> <<>>]
    /\ e_now = StartTime
    /\ e_last = [op |-> "none"]

PermNext ==
    \/ \E buf \in PermBufs :
          EtcWrite(Caller(0, 0, <<>>, TRUE), ETC_CFG_PATH, buf, Env(e_now, "none", <<>>, "none"))
    \/ \E ctx \in PermCallers, path \in PermPaths : \E env \in PermEnvs(ctx) :
          EtcGetattr(ctx, path, env)
    \/ \E ctx \in PermCallers, path \in PermPaths, flags \in GateFlags : \E env \in PermEnvs(ctx) :
          EtcOpen(ctx, path, flags, env)
    \/ \E ctx \in PermCallers, path \in PermPaths : \E env \in PermEnvs(ctx) :
          EtcRead(ctx, path, env)
    \/ \E ctx \in PermCallers, path \in PermPaths : \E env \in PermEnvs(ctx) :
          EtcWrite(ctx, path, <<"b">>, env)

SpecPerm == PermInit /\ [][PermNext]_vars

\* the credentials every underlying call of a request of ctx is to run with
CallerCreds(ctx) ==
    [euid |-> ctx.uid, egid |-> ctx.gid,
     groups |-> IF ctx.visible THEN ctx.groups ELSE <<>>]

\* the credentials the underlying calls of each handler run with, for ctx
PermRan(ctx, env) ==
    UNION {etc_m_getattr(ESt, creds, ctx, path, env).ran
           \cup etc_m_read(ESt, creds, ctx, path, PIPE_BUF, 0, env).ran
           \cup etc_m_write(ESt, creds, ctx, path, <<"b">>, 0, env).ran
           \cup UNION {etc_m_open(ESt, creds, ctx, path, flags, env).ran : flags \in GateFlags} :
           path \in PermPaths}

\* C5: every underlying file system call of a handler runs with the caller's
\* uid and gid as euid and egid and with the caller's group list (the empty
\* list when the groups cannot be read), however many groups the caller has
C5_CallerCredentials ==
    \A ctx \in PermCallers : \A env \in PermEnvs(ctx) :
        \A c \in PermRan(ctx, env) : c = CallerCreds(ctx)

(***************************************************************************)
(* crossfs serving file content: SpecFile.  The strata s and t hold a      *)
(* directory /x each, with a desktop file f, a fonts.dir and (in t) a      *)
(* subdirectory d; cpath /a is configured onto /x of one or both strata    *)
(* under each filter, and cpath /v/w onto a path that may not exist.       *)
(***************************************************************************)
MaxKeys == 10     \* lines of the longest fonts.dir
MaxOff == 1       \* reads start at the offsets 0, ReadSize, .. MaxOff * ReadSize

StratumS == <<"s">>
StratumT == <<"t">>
PathXF == PathX \o <<"/", "f">>
PathFonts == PathX \o <<"/">> \o FONTS_DIR
PathSub == PathX \o <<"/", "d">>
PathNone == <<"/", "n">>
PathVW == <<"/", "v", "/", "w">>
PathV == <<"/", "v">>

\* a desktop file: a line of each table, a relative Icon=, a plain line and a
\* last line without newline
IniData == <<"E", "x", "e", "c", "=", "a", "\n", "T", "r", "y", "E", "x", "e", "c", "=", "/", "b", "\n", "I", "c", "o", "n", "=", "c", "\n", "d", "\n", "E", "x", "e", "c", "S", "t", "o", "p", "=", "e">>
OtherData == <<"P", "a", "t", "h", "=", "/", "p", "\n">>

\* key i of a fonts.dir, in an order that is not the sorted one
FontKey(i) == <<CharOrder[CharCode("z") - i]>>
RECURSIVE FontData(_)
FontData(n) ==
    IF n = 0 THEN <<>>
    ELSE FontData(n - 1) \o FontKey(n) \o Sp \o <<"1">> \o Nl
\* a count line, a comment, a key of the other file with another value, a
\* key after which a tab and a space follow
SmallFonts == <<"3", "\n", "!", "c", " ", "9", "\n", "y", " ", "2", "\n", "k", "\t", " ", "u", " ", "v", "\n", "q", "\n">>

ModeAll == {"S_IRUSR", "S_IWUSR", "S_IXUSR", "S_IRGRP", "S_IXGRP", "S_IROTH", "S_IXOTH"}
ModePrivate == {"S_ISUID", "S_IRUSR", "S_IWUSR", "S_IXUSR"}

RegFile(mode, data) ==
    [type |-> "reg", mode |-> mode, uid |-> 0, len |-> Len(data), data |-> data]
DirFile == [type |-> "dir", mode |-> ModeAll, uid |-> 0, len |-> 0, data |-> <<>>]

\* the files of both strata: f of s is there, private to root or not, or
\* /n of s is there instead
FileTree(sf, smode, keys) ==
    LET all == [k \in {<<StratumS, PathX>>, <<StratumT, PathX>>, <<StratumT, PathSub>>,
                       <<StratumS, PathXF>>, <<StratumT, PathXF>>,
                       <<StratumS, PathFonts>>, <<StratumT, PathFonts>>,
                       <<StratumS, PathNone>>} |->
                   CASE k[2] \in {PathX, PathSub, PathNone} -> DirFile
                     [] k = <<StratumS, PathXF>> -> RegFile(smode, IniData)
                     [] k = <<StratumT, PathXF>> -> RegFile(ModeAll, OtherData)
                     [] k = <<StratumS, PathFonts>> -> RegFile(ModeAll, SmallFonts)
                     [] OTHER -> RegFile(ModeAll, FontData(keys))]
    IN  [k \in DOMAIN all \ (IF sf THEN {<<StratumS, PathNone>>} ELSE {<<StratumS, PathXF>>})
            |-> all[k]]

FileTrees == {FileTree(TRUE, ModePrivate, MaxKeys), FileTree(TRUE, ModeAll, 2),
              FileTree(FALSE, ModeAll, 2)}

FileCmds ==
    {AddCmd(filter_str[f], PathA, n, PathX) :
        f \in {FILTER_BIN, FILTER_BIN_RESTRICT, FILTER_INI, FILTER_FONT, FILTER_PASS},
        n \in {StratumS, StratumT}}
    \cup {AddCmd(filter_str[FILTER_PASS], PathVW, StratumS, PathNone)}
    \cup {ClearCmd}

FilePaths == {PathA, PathA \o <<"/", "f">>, PathA \o <<"/">> \o FONTS_DIR,
              PathA \o <<"/", "d">>, PathV, <<"/">>}
FileReqs == {Req(uid, 0) : uid \in Uids}
\* the caller whose requests the runs serve
FileUser == Req(1000, 0)
ReadSize == 4      \* the size of the buffer of a read
ReadOffsets == {i * ReadSize : i \in 0..MaxOff}

\* the extended attributes of the files crossfs serves
STRATUM_XATTR == "user.bedrock.stratum"
LPATH_XATTR == "user.bedrock.localpath"
RESTRICT_XATTR == "user.bedrock.restrict"
RESTRICT == <<"r", "e", "s", "t", "r", "i", "c", "t">>
VIRTUAL_STRATUM == <<"b", "e", "d", "r", "o", "c", "k">>
VIRTUAL_LPATH == <<"/">>
ENOTSUP == 95
\* the (name, size) pairs and the paths of the getxattr requests of the runs
XattrAsks == {<<STRATUM_XATTR, PATH_MAX>>, <<STRATUM_XATTR, 2>>, <<LPATH_XATTR, PATH_MAX>>,
              <<RESTRICT_XATTR, PATH_MAX>>, <<"user.other", PATH_MAX>>}
XattrPaths == {PathA \o <<"/", "f">>, PathA \o <<"/", "d">>, <<"/">>}
\* the paths of the read requests of the runs
ReadPaths == {PathA \o <<"/", "f">>, PathA \o <<"/">> \o FONTS_DIR, PathA}

\* loc_first_bpath as m_getxattr uses it: the back_entry found and its bpath
LocFirst(cfg, ipath, fs, req) ==
    LET i == loc_first_bpath(cfg, ipath, fs, req, 1)
    IN  IF i = 0 THEN [rv |-> -ENOENT, back |-> 0, bpath |-> NULL]
        ELSE [rv |-> 0, back |-> i, bpath |-> calc_bpath(cfg, cfg.back[i], ipath)]

\* the target m_getxattr selects for an attribute name
XattrTarget(st, req, ipath, name, fs) ==
    LET k == classify_ipath(st.cfgs, ipath)
        cfg == st.cfgs[k.cfg]
    IN  IF k.class = CLASS_BACK
        THEN IF name = STRATUM_XATTR
             THEN LET l == LocFirst(cfg, ipath, fs, req)
                  IN  [rv |-> l.rv,
                       target |-> IF l.rv >= 0 THEN deref(cfg.back[l.back], req) ELSE <<>>]
             ELSE IF name = LPATH_XATTR
             THEN LET l == LocFirst(cfg, ipath, fs, req)
                  IN  [rv |-> l.rv, target |-> l.bpath]
             ELSE IF name = RESTRICT_XATTR /\ cfg.filter = FILTER_BIN_RESTRICT
             THEN [rv |-> 0, target |-> RESTRICT]
             ELSE [rv |-> -ENOTSUP, target |-> <<>>]
        ELSE IF k.class \in {CLASS_VDIR, CLASS_ROOT, CLASS_CFG, CLASS_LOCAL}
        THEN IF name = STRATUM_XATTR THEN [rv |-> 0, target |-> VIRTUAL_STRATUM]
             ELSE IF name = LPATH_XATTR THEN [rv |-> 0, target |-> VIRTUAL_LPATH]
             ELSE [rv |-> -ENOTSUP, target |-> <<>>]
        ELSE [rv |-> -ENOENT, target |-> <<>>]

\* the value is copied with its terminating NUL byte
m_getxattr(st, req, ipath, name, size, fs) ==
    IF req.lsr < 0 THEN [rv |-> req.lsr, value |-> <<>>]
    ELSE LET t == XattrTarget(st, req, ipath, name, fs)
             target_len == Len(t.target) + 1
         IN  IF t.rv < 0 THEN [rv |-> t.rv, value |-> <<>>]
             ELSE IF size = 0 THEN [rv |-> target_len, value |-> <<>>]
             ELSE IF size < target_len THEN [rv |-> -ERANGE, value |-> <<>>]
             ELSE [rv |-> target_len, value |-> t.target \o <<NulByte>>]

LOCAL_ALIAS_NAME == Tail(LOCAL_ALIAS_PATH)
Dot == <<".">>
DotDot == <<".", ".">>

\* a hash table of strings is the sequence of its strings in insertion order
insert_h_str_NoFind(strs, str) == Append(strs, str)

insert_h_str(strs, str) ==
    IF \E i \in DOMAIN strs : strs[i] = str THEN strs ELSE Append(strs, str)

RECURSIVE InsertAll(_, _)
InsertAll(strs, names) ==
    IF names = {} THEN strs
    ELSE LET n == CHOOSE x \in names : TRUE
         IN  InsertAll(insert_h_str(strs, n), names \ {n})

\* the names readdir() gives for the directory bpath of a stratum whose
\* stat() succeeds
DirEntries(fs, name, bpath) ==
    LET prefix == IF bpath = <<"/">> THEN bpath ELSE bpath \o <<"/">>
    IN  {Dot, DotDot} \cup
        {SubSeq(key[2], Len(prefix) + 1, Len(key[2])) :
            key \in {q \in DOMAIN fs :
                        /\ q[1] = name
                        /\ Len(q[2]) > Len(prefix)
                        /\ SubSeq(q[2], 1, Len(prefix)) = prefix
                        /\ \A i \in (Len(prefix) + 1)..Len(q[2]) : q[2][i] # "/"}}

fchroot_filldir(fs, name, bpath, strs) ==
    IF Lookup(fs, name, bpath).type = "dir"
    THEN InsertAll(strs, DirEntries(fs, name, bpath))
    ELSE strs

RECURSIVE filldir_all_bpath(_, _, _, _, _, _)
filldir_all_bpath(cfg, ipath, fs, req, i, strs) ==
    IF i > Len(cfg.back) THEN strs
    ELSE LET bpath == calc_bpath(cfg, cfg.back[i], ipath) IN
         filldir_all_bpath(cfg, ipath, fs, req, i + 1,
             IF bpath = NULL THEN strs
             ELSE fchroot_filldir(fs, deref(cfg.back[i], req), bpath, strs))

\* ipath is the empty string when the directory is the root
RECURSIVE virt_filldir(_, _, _, _, _, _)
virt_filldir(c, ipath, fs, req, i, strs) ==
    IF i > Len(c) THEN strs
    ELSE IF ~is_parent(ipath, c[i].cpath) THEN virt_filldir(c, ipath, fs, req, i + 1, strs)
    ELSE LET rest == SubSeq(c[i].cpath, Len(ipath) + 2, Len(c[i].cpath))
             slashes == {n \in DOMAIN rest : rest[n] = "/"}
             slash == CHOOSE n \in slashes : \A m \in slashes : n <= m
         IN  IF slashes # {}
             THEN virt_filldir(c, ipath, fs, req, i + 1,
                               insert_h_str(strs, SubSeq(rest, 1, slash - 1)))
             ELSE IF \E j \in DOMAIN c[i].back :
                        fchroot_stat(fs, deref(c[i].back[j], req), c[i].back[j].lpath, 0).rv >= 0
             THEN virt_filldir(c, ipath, fs, req, i + 1, insert_h_str(strs, rest))
             ELSE virt_filldir(c, ipath, fs, req, i + 1, strs)

\* m_readdir: the return value and the names handed to filler
m_readdir(st, req, ipath, fs) ==
    IF req.lsr < 0 THEN [rv |-> req.lsr, names |-> <<>>]
    ELSE
    LET k == classify_ipath(st.cfgs, ipath)
        start == insert_h_str(insert_h_str(<<>>, Dot), DotDot)
    IN  CASE k.class = CLASS_BACK ->
               [rv |-> 0, names |-> filldir_all_bpath(st.cfgs[k.cfg], ipath, fs, req, 1, start)]
          [] k.class = CLASS_ROOT ->
               [rv |-> 0,
                names |-> virt_filldir(st.cfgs, <<>>, fs, req, 1,
                              insert_h_str(insert_h_str(start, CFG_NAME), LOCAL_ALIAS_NAME))]
          [] k.class = CLASS_VDIR ->
               [rv |-> 0, names |-> virt_filldir(st.cfgs, ipath, fs, req, 1, start)]
          [] OTHER -> [rv |-> -ENOENT, names |-> <<>>]

FileLast(op, req, ipath, r) ==
    [op |-> op, uid |-> req.uid, ipath |-> ipath, rv |-> r.rv, out |-> r]

FileInit ==
    /\ EtcIdle
    /\ cfgs = <<>>
    /\ cfg_size = 0
    /\ root_fds = [fd \in FdPool |-> Closed]
    /\ files \in FileTrees
    /\ x_last = FileLast("none", Root, <<>>, [rv |-> 0])

FileConfig(buf) ==
    \E r \in {m_write(St, Root, CFG_PATH, buf, "none")} :
    /\ WithinBounds(r.st)
    /\ r.st # St
    /\ cfgs' = r.st.cfgs
    /\ cfg_size' = r.st.size
    /\ root_fds' = r.st.fds
    /\ x_last' = FileLast("config", Root, CFG_PATH, [rv |-> r.rv])
    /\ UNCHANGED <<files, etc_vars>>

FileGetattr(req, ipath) ==
    \E r \in {m_getattr(St, req, ipath, files, {})} :
    /\ x_last' = FileLast("getattr", req, ipath, r)
    /\ UNCHANGED <<cfgs, cfg_size, root_fds, files, etc_vars>>

FileOpen(req, ipath) ==
    \E r \in {m_open(St, req, ipath, RdOnly, files)} :
    /\ files' = r.fs
    /\ x_last' = FileLast("open", req, ipath, [rv |-> r.rv])
    /\ UNCHANGED <<cfgs, cfg_size, root_fds, etc_vars>>

FileRead(req, ipath, offset) ==
    \E r \in {m_read(St, req, ipath, ReadSize, offset)} :
    /\ x_last' = FileLast("read", req, ipath, [rv |-> r.rv, text |-> r.text, offset |-> offset])
    /\ UNCHANGED <<cfgs, cfg_size, root_fds, files, etc_vars>>

FileGetxattr(req, ipath, name, size) ==
    \E r \in {m_getxattr(St, req, ipath, name, size, files)} :
    /\ x_last' = FileLast("getxattr", req, ipath,
                          [rv |-> r.rv, value |-> r.value, name |-> name, size |-> size])
    /\ UNCHANGED <<cfgs, cfg_size, root_fds, files, etc_vars>>

FileReaddir(req, ipath) ==
    \E r \in {m_readdir(St, req, ipath, files)} :
    /\ x_last' = FileLast("readdir", req, ipath, r)
    /\ UNCHANGED <<cfgs, cfg_size, root_fds, files, etc_vars>>

FileNext ==
    \/ \E buf \in FileCmds : FileConfig(buf)
    \/ \E ipath \in FilePaths : FileGetattr(FileUser, ipath)
    \/ \E ipath \in FilePaths : FileOpen(FileUser, ipath)
    \/ \E ipath \in ReadPaths, offset \in ReadOffsets : FileRead(FileUser, ipath, offset)
    \/ \E ipath \in XattrPaths, ask \in XattrAsks :
          FileGetxattr(FileUser, ipath, ask[1], ask[2])
    \/ \E ipath \in {<<"/">>, PathA, PathV} : FileReaddir(FileUser, ipath)

SpecFile == FileInit /\ [][FileNext]_vars

\* the file at the bpath of back_entry i of a cfg_entry
BackFile(cfg, i, ipath, req) ==
    Lookup(files, deref(cfg.back[i], req), calc_bpath(cfg, cfg.back[i], ipath))

\* the first back_entry, in list order, with a file at its bpath; 0 when none
FirstHit(cfg, ipath, req) ==
    LET hits == {i \in 1..Len(cfg.back) : BackFile(cfg, i, ipath, req).type # "absent"}
    IN  IF hits = {} THEN 0 ELSE CHOOSE i \in hits : \A j \in hits : i <= j

\* the bytes of data in the range (offset, size)
BytesAt(data, offset, size) ==
    [i \in 1..(IF offset >= Len(data) THEN 0 ELSE Min2(size, Len(data) - offset)) |->
        data[offset + i]]

\* C11: for a CLASS_BACK ipath under bin or bin-restrict whose first-hit
\* backing file is not a directory, getattr reports the size of the bouncer
\* and a mode with S_IRUSR, S_IRGRP and S_IROTH, a read at (offset, size)
\* returns the bytes of the bouncer in that range, and a read-only open
\* succeeds, whether or not the caller may read the backing file
C11_BouncerServed ==
    \A req \in FileReqs, ipath \in FilePaths :
        LET k == classify_ipath(cfgs, ipath)
            cfg == cfgs[k.cfg]
            hit == FirstHit(cfg, ipath, req)
        IN  (/\ k.class = CLASS_BACK
             /\ cfg.filter \in {FILTER_BIN, FILTER_BIN_RESTRICT}
             /\ hit # 0
             /\ BackFile(cfg, hit, ipath, req).type # "dir") =>
                /\ LET g == m_getattr(St, req, ipath, files, {})
                   IN  /\ g.rv = 0
                       /\ g.st_size = Len(Bouncer)
                       /\ {"S_IRUSR", "S_IRGRP", "S_IROTH"} \subseteq g.st_mode
                /\ \A offset \in 0..(Len(Bouncer) + 1), size \in 1..ReadSize :
                      LET r == m_read(St, req, ipath, size, offset)
                      IN  /\ r.text = BytesAt(Bouncer, offset, size)
                          /\ r.rv = Len(r.text)
                /\ m_open(St, req, ipath, RdOnly, files).rv = 0

\* a caller that may not read the backing file has opened it under a bin filter
C11_Witness ==
    /\ x_last.op = "open" /\ x_last.uid # 0 /\ x_last.rv = 0
    /\ LET k == classify_ipath(cfgs, x_last.ipath)
       IN  /\ k.class = CLASS_BACK
           /\ cfgs[k.cfg].filter \in {FILTER_BIN, FILTER_BIN_RESTRICT}
           /\ FirstHit(cfgs[k.cfg], x_last.ipath, Req(x_last.uid, 0)) # 0
           /\ LET f == BackFile(cfgs[k.cfg], FirstHit(cfgs[k.cfg], x_last.ipath,
                                                      Req(x_last.uid, 0)),
                                x_last.ipath, Req(x_last.uid, 0))
              IN  f.type = "reg" /\ ~MayAccess(f, x_last.uid, "S_IRUSR", "S_IROTH")

\* the value of an attribute as a caller with a buffer of PATH_MAX bytes gets it
Getxattr(req, ipath, name) == m_getxattr(St, req, ipath, name, PATH_MAX, files)
\* a C string as it lies in a buffer
CStr(str) == str \o <<NulByte>>

OpenErr(cfg, i, ipath, req, flags) ==
    LET r == fchroot_open(files, deref(cfg.back[i], req),
                          calc_bpath(cfg, cfg.back[i], ipath), flags, req.uid, 0)
    IN  IF r.fd >= 0 THEN 0 ELSE r.errno
\* the errno of stat(bpath) of back_entry i taken alone, 0 for success
StatErr(cfg, i, ipath, req) ==
    IF BackFile(cfg, i, ipath, req).type = "absent" THEN ENOENT ELSE 0
\* the first entry of errs that is not ENOENT; 0 when all are
FirstDecisive(errs) ==
    LET hits == {i \in DOMAIN errs : errs[i] # ENOENT}
    IN  IF hits = {} THEN 0 ELSE CHOOSE i \in hits : \A j \in hits : i <= j
AllFlags == GateFlags \cup {[acc |-> O_WRONLY, trunc |-> FALSE]}

VirtDir(ipath) == IF ipath = <<"/">> THEN <<>> ELSE ipath
NextComponent(dir, cpath) ==
    LET rest == SubSeq(cpath, Len(dir) + 2, Len(cpath))
    IN  IF \E n \in DOMAIN rest : rest[n] = "/"
        THEN SubSeq(rest, 1, (CHOOSE n \in DOMAIN rest :
                                 rest[n] = "/" /\ \A m \in 1..(n - 1) : rest[m] # "/") - 1)
        ELSE rest
IsGrandChild(dir, cpath) == NextComponent(dir, cpath) # SubSeq(cpath, Len(dir) + 2, Len(cpath))
\* some back_entry of the cfg_entry has a file at its lpath
HasBacking(cfg, req) ==
    \E j \in DOMAIN cfg.back :
        Lookup(files, deref(cfg.back[j], req), cfg.back[j].lpath).type # "absent"
Deeper(ipath) == {i \in DOMAIN cfgs : is_parent(VirtDir(ipath), cfgs[i].cpath)}
NoDuplicates(strs) == \A i, j \in DOMAIN strs : strs[i] = strs[j] => i = j
Names(strs) == {strs[i] : i \in DOMAIN strs}
\* the entries of the directories that the back entries of cfg have at ipath
BackEntries(cfg, ipath, req) ==
    UNION {DirEntries(files, deref(cfg.back[j], req), calc_bpath(cfg, cfg.back[j], ipath)) :
              j \in {n \in DOMAIN cfg.back : BackFile(cfg, n, ipath, req).type = "dir"}}

RECURSIVE SplitLines(_)
SplitLines(data) ==
    IF data = <<>> THEN <<>>
    ELSE IF \E i \in DOMAIN data : data[i] = "\n"
    THEN LET n == CHOOSE i \in DOMAIN data : data[i] = "\n" /\ \A j \in 1..(i - 1) : data[j] # "\n"
         IN  <<SubSeq(data, 1, n)>> \o SplitLines(SubSeq(data, n + 1, Len(data)))
    ELSE <<data>>

\* a line of a desktop or unit file as the rules of the ini filter rewrite it
RewriteLine(line, name) ==
    LET strat == {k \in {ini_inject_strat_str[i] : i \in DOMAIN ini_inject_strat_str} :
                     HasPrefix(line, k)}
        path == {k \in {ini_expand_path_str[i] : i \in DOMAIN ini_expand_path_str} :
                     HasPrefix(line, k \o <<"/">>)}
    IN  IF strat # {}
        THEN LET k == CHOOSE x \in strat : TRUE
             IN  k \o STRAT_PATH \o Sp \o name \o Sp \o SubSeq(line, Len(k) + 1, Len(line))
        ELSE IF path # {}
        THEN LET k == CHOOSE x \in path : TRUE
             IN  k \o STRATA_ROOT \o name
                   \o SubSeq(line, Len(k) + 1, Len(line))
        ELSE line

Rewritten(data, name) ==
    LET lines == SplitLines(data)
    IN  Concat([i \in DOMAIN lines |-> RewriteLine(lines[i], name)])

\* the concatenation of the reads of size bytes at the successive offsets from
\* offset on, until a read gives nothing
RECURSIVE ReadOn(_, _, _, _)
ReadOn(req, ipath, size, offset) ==
    With(m_read(St, req, ipath, size, offset),
         LAMBDA r : IF r.rv <= 0 THEN <<>>
                    ELSE r.text \o ReadOn(req, ipath, size, offset + r.rv))

\* C15: for a regular backing file under the ini filter that the caller may
\* read, the reads at successive offsets together give the file with every
\* line rewritten by the rules of the filter, and getattr reports the length
\* of that content as st_size
C15_IniContentAndSize ==
    \A req \in FileReqs, ipath \in FilePaths :
        LET k == classify_ipath(cfgs, ipath)
            cfg == cfgs[k.cfg]
            hit == FirstHit(cfg, ipath, req)
            f == BackFile(cfg, hit, ipath, req)
        IN  (/\ k.class = CLASS_BACK
             /\ cfg.filter = FILTER_INI
             /\ hit # 0
             /\ f.type = "reg"
             /\ MayAccess(f, req.uid, "S_IRUSR", "S_IROTH")) =>
                LET want == Rewritten(f.data, deref(cfg.back[hit], req))
                    g == m_getattr(St, req, ipath, files, {})
                IN  /\ \A size \in {ReadSize, PIPE_BUF} : ReadOn(req, ipath, size, 0) = want
                    /\ g.rv = 0
                    /\ g.st_size = Len(want)

\* a read at an offset after the first has given its part of a rewritten file
\* that has lines of both tables
C15_Witness ==
    /\ x_last.op = "read" /\ x_last.rv = ReadSize /\ x_last.out.offset > 0
    /\ LET k == classify_ipath(cfgs, x_last.ipath)
           req == Req(x_last.uid, 0)
       IN  /\ k.class = CLASS_BACK
           /\ cfgs[k.cfg].filter = FILTER_INI
           /\ FirstHit(cfgs[k.cfg], x_last.ipath, req) # 0
           /\ LET f == BackFile(cfgs[k.cfg], FirstHit(cfgs[k.cfg], x_last.ipath, req),
                                x_last.ipath, req)
              IN  /\ f.data = IniData
                  /\ Len(Rewritten(f.data, StratumS)) > Len(f.data)
                  /\ x_last.out.text = BytesAt(Rewritten(f.data, StratumS),
                                               x_last.out.offset, ReadSize)

\* a line of a fonts.dir or fonts.alias split at its first run of spaces and
\* tabs; nothing for a comment and for a line without such a run
SplitAtRun(line) ==
    LET seps == {i \in DOMAIN line : line[i] \in {" ", "\t"}}
        sep == CHOOSE i \in seps : \A j \in seps : i <= j
        after == {i \in (sep + 1)..Len(line) : line[i] \notin {" ", "\t"}}
        val == IF after = {} THEN Len(line) + 1
               ELSE CHOOSE i \in after : \A j \in after : i <= j
    IN  IF line[1] = "!" \/ seps = {} THEN <<>>
        ELSE <<[key |-> SubSeq(line, 1, sep - 1), value |-> SubSeq(line, val, Len(line))]>>

\* the pairs of kvs and then those of pairs whose key has not occurred before
RECURSIVE FirstOfKey(_, _)
FirstOfKey(kvs, pairs) ==
    IF pairs = <<>> THEN kvs
    ELSE FirstOfKey(IF \E m \in DOMAIN kvs : kvs[m].key = Head(pairs).key
                    THEN kvs ELSE Append(kvs, Head(pairs)),
                    Tail(pairs))

\* the pairs of the files of the back entries from i on, the earliest value
\* of a key first
RECURSIVE MergedPairs(_, _, _, _, _)
MergedPairs(cfg, ipath, req, i, kvs) ==
    IF i > Len(cfg.back) THEN kvs
    ELSE LET f == BackFile(cfg, i, ipath, req)
             lines == IF f.type = "reg" /\ MayAccess(f, req.uid, "S_IRUSR", "S_IROTH")
                      THEN SplitLines(f.data) ELSE <<>>
         IN  MergedPairs(cfg, ipath, req, i + 1,
                 FirstOfKey(kvs, Concat([n \in DOMAIN lines |-> SplitAtRun(lines[n])])))

\* the merged file: a line key<TAB>value for each key, sorted, after the
\* number of the lines for a fonts.dir
MergedFonts(cfg, ipath, req) ==
    LET kvs == HASH_SORT(MergedPairs(cfg, ipath, req, 1, <<>>))
        body == Concat([n \in DOMAIN kvs |-> kvs[n].key \o Tab \o kvs[n].value])
    IN  IF Basename(ipath) = FONTS_DIR THEN Decimal(Len(kvs)) \o Nl \o body ELSE body

\* C16 as stated: for a fonts.dir or fonts.alias under the font filter the
\* reads give one line key<TAB>value for each key of the files of the back
\* entries, comments skipped, key and value split at the first run of spaces
\* and tabs, the value that of the earliest back entry with the key, sorted
\* by key and, for fonts.dir, after a line with the number of entries; and
\* getattr reports the length of that output as st_size
C16_FontsMergedAndSized ==
    \A req \in FileReqs, ipath \in FilePaths :
        LET k == classify_ipath(cfgs, ipath)
            cfg == cfgs[k.cfg]
        IN  (/\ k.class = CLASS_BACK
             /\ cfg.filter = FILTER_FONT
             /\ Basename(ipath) \in {FONTS_DIR, FONTS_ALIAS}
             /\ \E i \in DOMAIN cfg.back :
                   /\ BackFile(cfg, i, ipath, req).type = "reg"
                   /\ MayAccess(BackFile(cfg, i, ipath, req), req.uid, "S_IRUSR", "S_IROTH")) =>
                LET want == MergedFonts(cfg, ipath, req)
                    g == m_getattr(St, req, ipath, files, {})
                IN  /\ ReadOn(req, ipath, PIPE_BUF, 0) = want
                    /\ g.rv = 0
                    /\ g.st_size = Len(want)

(***************************************************************************)
(* etcfs: the system calls of inject and uninject, one at a time:          *)
(* SpecInject.  The local /etc holds the regular file /f with content F;   *)
(* an inject override of /f holds the captured bytes S.  A call is at the  *)
(* system call pc; every system call may fail, and the process may be      *)
(* stopped between any two.                                                *)
(***************************************************************************)
MaxData == 2      \* bytes of the longest content of /f
MaxInject == 3    \* bytes of the longest captured content
MaxOps == 2       \* calls of inject and uninject in one run

InjBytes == {"a", "b"}
BytesUpTo(n) == UNION {[1..l -> InjBytes] : l \in 0..n}
InjContents == BytesUpTo(MaxData)
InjCaptured == BytesUpTo(MaxInject) \ {<<>>}
\* what buf[] of uninject may hold before the first read
InjStacks == {NulByte, "a"}

InjTarget == Tail(PathF)
InjTmp == InjTarget \o ATOMIC_UPDATE_SUFFIX
InjFile(data) ==
    [type |-> "reg", uid |-> 0, gid |-> 0, mode |-> {"S_IRUSR", "S_IWUSR", "S_IRGRP", "S_IROTH"},
     data |-> data]
OneFile(data) == [k \in {<<LocalRef, InjTarget>>} |-> InjFile(data)]
TargetData(fs) == EtcLookup(fs, LocalRef, InjTarget).data
Removed(fs, ref, rpath) == [k \in (DOMAIN fs) \ {<<ref, rpath>>} |-> fs[k]]

\* write(fd, bytes) at file position pos
WriteAt(data, pos, bytes) ==
    [i \in 1..(IF Len(data) > pos + Len(bytes) THEN Len(data) ELSE pos + Len(bytes)) |->
        IF i > pos /\ i <= pos + Len(bytes) THEN bytes[i - pos]
        ELSE IF i <= Len(data) THEN data[i] ELSE NulByte]
\* ftruncate(fd, len)
Truncated(data, len) == [i \in 1..len |-> IF i <= Len(data) THEN data[i] ELSE NulByte]

\* a call of inject or uninject before its first system call
\* prev: the call before it, as Ended records it
NewCall(op, fs, n, prev) ==
    [op |-> op, pc |-> "openat", pre |-> TargetData(fs), rv |-> -1, tmp_fd |-> FALSE,
     rpos |-> 0, wpos |-> 0, buf |-> <<>>, offset |-> -1, clean |-> TRUE, n |-> n,
     prev |-> prev, tmp_pre |-> EtcLookup(fs, LocalRef, InjTmp).type]
\* the record of a call that has ended: what it found and what it left when
\* no system call of it failed and it was not stopped
Ended(c, fs) ==
    IF c.pc = "done" /\ c.clean /\ c.op # "none"
    THEN [op |-> c.op, pre |-> c.pre, post |-> TargetData(fs), clean |-> TRUE]
    ELSE [op |-> c.op, pre |-> <<>>, post |-> <<>>, clean |-> FALSE]
NoCall ==
    [NewCall("none", OneFile(<<>>), 0, [op |-> "none", pre |-> <<>>, post |-> <<>>,
                                        clean |-> FALSE]) EXCEPT !.pc = "done"]

\* goto clean_up_and_return: the temporary file is unlinked when it was opened
Return(c, fs, rv, ok) ==
    [c |-> [c EXCEPT !.pc = "done", !.rv = rv, !.clean = c.clean /\ ok, !.tmp_fd = FALSE,
                     !.rpos = 0, !.wpos = 0, !.buf = <<>>, !.offset = -1],
     fs |-> IF c.tmp_fd /\ EtcLookup(fs, LocalRef, InjTmp).type # "dir"
            THEN Removed(fs, LocalRef, InjTmp) ELSE fs]

\* one read of a copy loop: the next system call is a write of the bytes
\* read; the loop ends at the end of the file and when read fails
ReadStep(c, fs, size, ok, write, after) ==
    LET chunk == SubSeq(c.pre, c.rpos + 1, Min2(c.rpos + size, Len(c.pre)))
    IN  IF ~ok THEN [c |-> [c EXCEPT !.pc = after, !.clean = FALSE], fs |-> fs]
        ELSE IF chunk = <<>> THEN [c |-> [c EXCEPT !.pc = after], fs |-> fs]
        ELSE [c |-> [c EXCEPT !.pc = write, !.buf = chunk], fs |-> fs]

WriteStep(c, fs, bytes, ok, next) ==
    IF ~ok THEN Return(c, fs, -1, FALSE)
    ELSE [c |-> [c EXCEPT !.pc = next, !.wpos = @ + Len(bytes), !.rpos = @ + Len(bytes)],
          fs |-> [fs EXCEPT ![<<LocalRef, InjTmp>>].data = WriteAt(@, c.wpos, bytes)]]

\* the system call at c.pc of inject (461-560) or uninject (565-691) with the
\* outcome out: "ok", "fail", or what file_search answers after a failed
\* read ("found", "miss"); stack is what buf[] of uninject holds at first
OverrideStep(c, fs, inj, cr, out, stack) ==
    LET ok == out = "ok"
        target == EtcLookup(fs, LocalRef, InjTarget)
        tmp == EtcLookup(fs, LocalRef, InjTmp)
        goto(pc) == [c |-> [c EXCEPT !.pc = pc], fs |-> fs]
    IN  CASE c.pc = "openat" ->
               IF ~ok \/ target.type # "reg" THEN Return(c, fs, -1, ok) ELSE goto("fstat")
          [] c.pc = "fstat" ->
               IF ~ok THEN Return(c, fs, -1, FALSE)
               ELSE IF c.op = "inject" /\ c.pre = <<>> THEN Return(c, fs, 0, TRUE)
               ELSE IF c.op = "uninject" /\ Len(c.pre) < Len(inj) THEN Return(c, fs, 0, TRUE)
               ELSE goto("search")
          [] c.pc = "search" /\ c.op = "inject" ->
               IF (ok /\ Len(c.pre) >= Len(inj) /\ Strstr(c.pre, inj)) \/ out = "found"
               THEN Return(c, fs, 0, ok)
               ELSE [c |-> [c EXCEPT !.pc = "unlinkat", !.clean = @ /\ ok], fs |-> fs]
          [] c.pc = "search" /\ c.op = "uninject" ->
               LET offset == IF ok THEN UninjectScan(c.pre, inj, 0,
                                            [i \in 1..(2 * Len(inj)) |-> stack])
                             ELSE -1
               IN  IF offset < 0 THEN Return(c, fs, 0, ok)
                   ELSE [c |-> [c EXCEPT !.pc = "unlinkat", !.offset = offset], fs |-> fs]
          [] c.pc = "unlinkat" ->
               [c |-> [c EXCEPT !.pc = "creat", !.clean = @ /\ ok],
                fs |-> IF ok /\ tmp.type \in {"reg", "lnk"} THEN Removed(fs, LocalRef, InjTmp)
                       ELSE fs]
          [] c.pc = "creat" ->
               IF ~ok \/ tmp.type \in {"dir", "lnk"} THEN Return(c, fs, -1, FALSE)
               ELSE [c |-> [c EXCEPT !.pc = "lseek", !.tmp_fd = TRUE, !.wpos = 0],
                     fs |-> IF tmp.type = "reg" THEN fs
                            ELSE EtcStore(fs, LocalRef, InjTmp,
                                     [type |-> "reg", uid |-> cr.euid, gid |-> cr.egid,
                                      mode |-> target.mode, data |-> <<>>])]
          [] c.pc = "lseek" ->
               IF ~ok THEN Return(c, fs, -1, FALSE)
               ELSE [c |-> [c EXCEPT !.pc = "read", !.rpos = 0], fs |-> fs]
          [] c.pc = "read" ->
               IF c.op = "inject" THEN ReadStep(c, fs, PATH_MAX, ok, "write", "append")
               ELSE ReadStep(c, fs, 2 * Len(inj), ok, "write", "ftruncate")
          [] c.pc = "write" -> WriteStep(c, fs, c.buf, ok, "read")
          [] c.pc = "append" ->
               IF ~ok THEN Return(c, fs, -1, FALSE)
               ELSE [c |-> [c EXCEPT !.pc = "renameat"],
                     fs |-> [fs EXCEPT ![<<LocalRef, InjTmp>>].data = WriteAt(@, c.wpos, inj)]]
          [] c.pc = "ftruncate" ->
               IF ~ok THEN Return(c, fs, -1, FALSE)
               ELSE [c |-> [c EXCEPT !.pc = "lseek_fd"],
                     fs |-> [fs EXCEPT ![<<LocalRef, InjTmp>>].data =
                                           Truncated(@, Len(c.pre) - Len(inj))]]
          [] c.pc = "lseek_fd" ->
               IF ~ok THEN Return(c, fs, -1, FALSE)
               ELSE [c |-> [c EXCEPT !.pc = "lseek_tmp", !.rpos = c.offset + Len(inj)],
                     fs |-> fs]
          [] c.pc = "lseek_tmp" ->
               IF ~ok THEN Return(c, fs, -1, FALSE)
               ELSE [c |-> [c EXCEPT !.pc = "read_rest", !.wpos = c.offset], fs |-> fs]
          [] c.pc = "read_rest" ->
               ReadStep(c, fs, 2 * Len(inj), ok, "write_rest", "renameat")
          [] c.pc = "write_rest" -> WriteStep(c, fs, c.buf, ok, "read_rest")
          [] c.pc = "renameat" ->
               IF ~ok THEN Return(c, fs, -1, FALSE)
               ELSE Return(c, EtcStore(Removed(fs, LocalRef, InjTmp), LocalRef, InjTarget, tmp),
                           0, TRUE)
          [] OTHER -> [c |-> c, fs |-> fs]

InjOutcomes(c) ==
    IF c.pc = "search" /\ c.op = "inject" THEN {"ok", "found", "miss"} ELSE {"ok", "fail"}
Running(c) == c.pc \notin {"done", "killed"}

InjInit ==
    /\ cfgs = <<>>
    /\ cfg_size = 0
    /\ root_fds = [fd \in FdPool |-> Closed]
    /\ files = NoFiles
    /\ x_last = Last("none", "other", 0, 0, FALSE, FALSE)
    /\ globals = <<>>
    /\ \E S \in InjCaptured :
          overrides = <<[path |-> PathF, type |-> TYPE_INJECT, content |-> <<"/", "s">>,
                         inject |-> S, last_override |-> 0]>>
    /\ e_size = 0
    /\ \E F \in InjContents : e_files = OneFile(F)
    /\ creds = [euid |-> 0, egid |-> 0, groups |-> <<>>]
    /\ e_now = StartTime
    /\ e_last = NoCall

\* apply_override calls inject; cfg_rm_override calls uninject
InjStart(op) ==
    /\ ~Running(e_last)
    /\ e_last.n < MaxOps
    /\ e_last' = NewCall(op, e_files, e_last.n + 1, Ended(e_last, e_files))
    /\ UNCHANGED <<cfgs, cfg_size, root_fds, files, x_last, globals, overrides, e_size,
                   e_files, creds, e_now>>

InjStep(out, stack) ==
    /\ Running(e_last)
    /\ out \in InjOutcomes(e_last)
    /\ \E r \in {OverrideStep(e_last, e_files, overrides[1].inject, creds, out, stack)} :
          /\ e_files' = r.fs
          /\ e_last' = r.c
    /\ UNCHANGED <<cfgs, cfg_size, root_fds, files, x_last, globals, overrides, e_size,
                   creds, e_now>>

\* the process is stopped between two system calls
InjKill ==
    /\ Running(e_last)
    /\ e_last' = [e_last EXCEPT !.pc = "killed", !.clean = FALSE, !.tmp_fd = FALSE,
                                !.rpos = 0, !.wpos = 0, !.buf = <<>>, !.offset = -1]
    /\ UNCHANGED <<cfgs, cfg_size, root_fds, files, x_last, globals, overrides, e_size,
                   e_files, creds, e_now>>

InjNext ==
    \/ \E op \in {"inject", "uninject"} : InjStart(op)
    \/ \E out \in {"ok", "fail", "found", "miss"}, stack \in InjStacks : InjStep(out, stack)
    \/ InjKill

SpecInject == InjInit /\ [][InjNext]_vars

\* the content the claim gives for inject of S into a file with content F
Injected(F, S) == IF F = <<>> \/ Strstr(F, S) THEN F ELSE F \o S

\* C18: inject of S into a regular file with content F leaves the file as it
\* is when F is empty or contains S, and else replaces it with F followed by
\* S; a second inject changes nothing
C18_InjectOnce ==
    LET S == overrides[1].inject
        F == TargetData(e_files)
        fs0 == OneFile(F)
        once == inject(fs0, LocalRef, InjTarget, S, creds)
        twice == inject(once.fs, LocalRef, InjTarget, S, creds)
        now == Ended(e_last, e_files)
    IN  /\ once.rv = 0 /\ twice.rv = 0
        /\ TargetData(once.fs) = Injected(F, S)
        /\ (F = <<>> \/ Strstr(F, S)) => once.fs = fs0
        /\ twice.fs = once.fs
        /\ (now.op = "inject" /\ now.clean) =>
              /\ e_last.rv = 0
              /\ now.post = Injected(now.pre, S)
              /\ (e_last.prev.op = "inject" /\ e_last.prev.clean) =>
                    now.post = e_last.prev.post

\* inject has run twice without a failing system call, and the first run has
\* appended S
C18_Witness ==
    LET now == Ended(e_last, e_files)
        prev == e_last.prev
    IN  /\ prev.op = "inject" /\ prev.clean /\ prev.post # prev.pre
        /\ now.op = "inject" /\ now.clean /\ now.post = prev.post

\* C19 as stated: inject and then uninject of S restore the content F the
\* file had
C19_InjectUninjectRestores ==
    LET S == overrides[1].inject
        now == Ended(e_last, e_files)
    IN  /\ \A stack \in InjStacks :
              LET fs0 == OneFile(TargetData(e_files))
                  a == inject(fs0, LocalRef, InjTarget, S, creds)
              IN  TargetData(uninject(a.fs, LocalRef, InjTarget, S, creds, stack).fs)
                      = TargetData(e_files)
        /\ (/\ e_last.prev.op = "inject" /\ e_last.prev.clean
            /\ now.op = "uninject" /\ now.clean) => now.post = e_last.prev.pre

\* the content inject or uninject leaves when it runs to its end
PostContent(c, S, stack) ==
    IF c.op = "inject" THEN TargetData(inject(OneFile(c.pre), LocalRef, InjTarget, S, creds).fs)
    ELSE TargetData(uninject(OneFile(c.pre), LocalRef, InjTarget, S, creds, stack).fs)

\* C20 as stated: at every system call of inject and uninject, whichever
\* fails and wherever the process is stopped, the target holds the whole
\* content from before the call or the whole content the call is to leave,
\* and after a failure the temporary file is gone
C20_AtomicAndCleaned ==
    /\ e_last.op \in {"inject", "uninject"} =>
          \E stack \in InjStacks :
              TargetData(e_files) \in {e_last.pre,
                                       PostContent(e_last, overrides[1].inject, stack)}
    /\ (/\ e_last.op \in {"inject", "uninject"}
        /\ e_last.pc = "done" /\ e_last.rv < 0 /\ e_last.tmp_pre = "absent") =>
          /\ EtcLookup(e_files, LocalRef, InjTmp).type = "absent"
          /\ TargetData(e_files) = e_last.pre

(***************************************************************************)
(* etcfs: a symlink or directory override of /b, requests on /b, changes   *)
(* of the entry below etcfs, and the clock: SpecOver                       *)
(***************************************************************************)
MaxTick == 3      \* seconds the clock advances in one run

\* m_unlink.  The directory the entry is in belongs to root and only root
\* may write to it.
etc_m_unlink(st, cr, ctx, path, env) ==
    With(EtcSetup(st, cr, ctx, path, env.now, env.sys, env.heap), LAMBDA s :
    IF s.rv < 0 THEN EtcOut(s.rv, s.st, s.cr, <<>>, {})
    ELSE IF s.rpath = CFG_NAME THEN EtcOut(EtcReturn(-1, EINVAL), s.st, s.cr, <<>>, {})
    ELSE LET f == EtcLookup(s.st.files, s.ref, s.rpath)
         IN  IF f.type = "absent" THEN EtcOut(EtcReturn(-1, ENOENT), s.st, s.cr, <<>>, {s.cr})
             ELSE IF s.cr.euid # 0 THEN EtcOut(EtcReturn(-1, EACCES), s.st, s.cr, <<>>, {s.cr})
             ELSE IF f.type = "dir" THEN EtcOut(EtcReturn(-1, EISDIR), s.st, s.cr, <<>>, {s.cr})
             ELSE EtcOut(0, [s.st EXCEPT !.files = Removed(@, s.ref, s.rpath)], s.cr, <<>>,
                         {s.cr}))

OverKinds == {"absent", "reg", "lnk", "dir", "full"}
OverEntry(type, data) ==
    [type |-> type, uid |-> 0, gid |-> 0, mode |-> {"S_IRUSR", "S_IWUSR", "S_IXUSR"},
     data |-> data]
\* what is below etcfs at /b: nothing, a file, a symlink to /a, an empty
\* directory, a directory with the file c in it
OverFiles(kind) ==
    LET b == <<LocalRef, Tail(PathB)>>
        c == <<LocalRef, Tail(PathB) \o <<"/", "c">>>>
    IN  [k \in (CASE kind = "absent" -> {} [] kind = "full" -> {b, c} [] OTHER -> {b}) |->
            IF k = c THEN OverEntry("reg", <<"c">>)
            ELSE CASE kind = "reg" -> OverEntry("reg", <<"b">>)
                   [] kind = "lnk" -> OverEntry("lnk", PathA)
                   [] OTHER -> OverEntry("dir", <<>>)]

OverCallers == {Caller(uid, uid, <<>>, TRUE) : uid \in Uids}
OverEnv == Env(e_now, "none", <<>>, "none")
OverTypes == {TYPE_SYMLINK, TYPE_DIRECTORY}

\* the override of /b, or 0
OverAt == OverrideIndex(overrides, PathB)
\* lstat of /b below etcfs shows what the override o asks for
Shows(fs, o) ==
    LET f == EtcLookup(fs, LocalRef, Tail(PathB))
    IN  IF o.type = TYPE_SYMLINK THEN f.type = "lnk" /\ f.data = o.content
        ELSE f.type = "dir"
\* the request arrives more than a second after the override was enforced
Late(ov, now) ==
    LET i == OverrideIndex(ov, PathB) IN i = 0 \/ (now - ov[i].last_override) > 1

\* reqs: the requests on /b served since its override was added (2: two or
\* more); late, shown: what the request found
OverLast(op, rv, reqs) ==
    [op |-> op, rv |-> rv, reqs |-> reqs, late |-> Late(overrides, e_now),
     shown |-> OverAt # 0 /\ Shows(e_files, overrides[OverAt])]

OverServe(op, r, reqs) ==
    /\ globals' = r.st.globals
    /\ overrides' = r.st.overrides
    /\ e_size' = r.st.size
    /\ e_files' = r.st.files
    /\ creds' = r.cr
    /\ e_last' = OverLast(op, r.rv, reqs)
    /\ UNCHANGED <<e_now, cross_vars>>

OverInit ==
    /\ cfgs = <<>>
    /\ cfg_size = 0
    /\ root_fds = [fd \in FdPool |-> Closed]
    /\ files = NoFiles
    /\ x_last = Last("none", "other", 0, 0, FALSE, FALSE)
    /\ globals = <<>>
    /\ overrides = <<>>
    /\ e_size = 0
    /\ \E kind \in OverKinds : e_files = OverFiles(kind)
    /\ creds = [euid |-> 0, egid |-> 0, groups |-> <<>>]
    /\ e_now = StartTime
    /\ e_last = [op |-> "none", rv |-> 0, reqs |-> 0, late |-> TRUE, shown |-> FALSE]

\* root writes add_override symlink|directory /b /x to the config file
OverAdd(type) ==
    \E r \in {etc_m_write(ESt, creds, Caller(0, 0, <<>>, TRUE), ETC_CFG_PATH,
                          AddOverrideCmd(type, PathB, PathX), 0, OverEnv)} :
        OverServe("add", r, IF Len(r.st.overrides) > Len(overrides) THEN 0 ELSE e_last.reqs)

\* root writes rm_override /b
OverRm ==
    \E r \in {etc_m_write(ESt, creds, Caller(0, 0, <<>>, TRUE), ETC_CFG_PATH,
                          RmOverrideCmd(PathB), 0, OverEnv)} :
        OverServe("rm", r, e_last.reqs)

\* lstat of /b through etcfs
OverGetattr(ctx) ==
    \E r \in {etc_m_getattr(ESt, creds, ctx, PathB, OverEnv)} :
        OverServe("getattr", r, Min2(e_last.reqs + 1, 2))

\* unlink of /b through etcfs
OverUnlink(ctx) ==
    \E r \in {etc_m_unlink(ESt, creds, ctx, PathB, OverEnv)} :
        OverServe("unlink", r, Min2(e_last.reqs + 1, 2))

\* the entry changes below etcfs
OverDisturb(kind) ==
    /\ e_files # OverFiles(kind)
    /\ e_files' = OverFiles(kind)
    /\ e_last' = [e_last EXCEPT !.op = "disturb"]
    /\ UNCHANGED <<cross_vars, globals, overrides, e_size, creds, e_now>>

\* time(NULL) advances by a second
OverTick ==
    /\ e_now < StartTime + MaxTick
    /\ e_now' = e_now + 1
    /\ e_last' = [e_last EXCEPT !.op = "tick"]
    /\ UNCHANGED <<cross_vars, globals, overrides, e_size, e_files, creds>>

OverNext ==
    \/ \E type \in OverTypes : OverAdd(type)
    \/ OverRm
    \/ \E ctx \in OverCallers : OverGetattr(ctx)
    \/ \E ctx \in OverCallers : OverUnlink(ctx)
    \/ \E kind \in OverKinds : OverDisturb(kind)
    \/ OverTick

SpecOver == OverInit /\ [][OverNext]_vars

\* lstat of /b through etcfs, now
LstatNow == etc_m_getattr(ESt, creds, Caller(0, 0, <<>>, TRUE), PathB, OverEnv)
\* a symlink override finds a directory with entries: unlinkat cannot remove it
Stuck(fs, o) ==
    /\ o.type = TYPE_SYMLINK
    /\ EtcLookup(fs, LocalRef, Tail(PathB)).type = "dir"
    /\ HasChildren(fs, LocalRef, Tail(PathB))

\* C17 as stated: when a symlink or directory override of /b has been added
\* and one request on /b and one more have been served, an lstat of /b shows
\* the override, whatever the entry was changed to and whatever the time
C17_ShownAfterOneMore ==
    (OverAt # 0 /\ e_last.reqs >= 2) =>
        /\ LstatNow.rv = 0
        /\ Shows(LstatNow.st.files, overrides[OverAt])

\* C17 amended: when a symlink or directory override of /b has been added
\* and a request on /b has been served, an lstat of /b that arrives more than
\* a second after the override was last enforced shows the override, unless
\* a symlink is to replace a directory with entries (the lstat then fails
\* with ERANGE); an lstat within that second leaves the entry as it is
C17_ShownUnlessRecent ==
    (OverAt # 0 /\ e_last.reqs >= 1) =>
        LET o == overrides[OverAt]
            r == LstatNow
        IN  /\ Shows(e_files, o) => (r.rv = 0 /\ r.st.files = e_files)
            /\ (~Shows(e_files, o) /\ ~Late(overrides, e_now)) =>
                  (r.st = ESt /\ ~Shows(r.st.files, o))
            /\ (~Shows(e_files, o) /\ Late(overrides, e_now) /\ ~Stuck(e_files, o)) =>
                  (r.rv = 0 /\ Shows(r.st.files, o))
            /\ (~Shows(e_files, o) /\ Late(overrides, e_now) /\ Stuck(e_files, o)) =>
                  (r.rv = -ERANGE /\ r.st.files = e_files)
            /\ (e_last.op = "getattr" /\ e_last.late /\ e_last.rv = 0) => Shows(e_files, o)
            /\ (e_last.op = "getattr" /\ ~e_last.late /\ ~e_last.shown) => ~Shows(e_files, o)

\* the override was enforced, the entry was changed, and a third or later
\* request, an lstat more than a second later, has put the override back
C17_Witness ==
    /\ OverAt # 0
    /\ e_last.op = "getattr" /\ e_last.reqs >= 2
    /\ e_last.late /\ ~e_last.shown
    /\ overrides[OverAt].last_override > StartTime
    /\ Shows(e_files, overrides[OverAt])

(***************************************************************************)
(* etcfs: m_rename between the local and the global directory: SpecRename  *)
(***************************************************************************)
MaxRenames == 1   \* renames served in one run

EXDEV == 18
EIO == 5
EEXIST == 17
ENOTEMPTY == 39
EOPNOTSUPP == 95
RENAME_NOREPLACE == 1

\* "./.bedrock-tmpfile-%lu" with GETTID(), below the directory of the target
RenameTmp(tid) ==
    <<".", "b", "e", "d", "r", "o", "c", "k", "-", "t", "m", "p", "f", "i", "l", "e", "-", tid>>

\* the kernel's check for fchownat(uid, gid) by a thread with these credentials
MayChown(f, cr, uid, gid) ==
    \/ cr.euid = 0
    \/ /\ cr.euid = f.uid
       /\ uid = f.uid
       /\ (gid = cr.egid \/ \E i \in 1..Len(cr.groups) : cr.groups[i] = gid)

\* the entry from and what is below it, at to
Moved(fs, ref, from, to) ==
    LET below(k) == k[1] = ref /\ (k[2] = from \/ HasPrefix(k[2], from \o <<"/">>))
        at(k) == <<ref, to \o SubSeq(k[2], Len(from) + 1, Len(k[2]))>>
        gone == {k \in DOMAIN fs : below(k) \/ k = <<ref, to>>}
        new == {at(k) : k \in {j \in DOMAIN fs : below(j)}}
    IN  [k \in ((DOMAIN fs) \ gone) \cup new |->
            IF k \in new THEN fs[CHOOSE j \in DOMAIN fs : below(j) /\ at(j) = k] ELSE fs[k]]

\* renameat(ref_fd, from, to_ref_fd, to): the errno it fails with (0: done) and
\* the files afterwards; the two directories are on different file systems
renameat(fs, ref, from, to_ref, to) ==
    LET f == EtcLookup(fs, ref, from)
        t == EtcLookup(fs, to_ref, to)
    IN  IF f.type = "absent" THEN [errno |-> ENOENT, fs |-> fs]
        ELSE IF ref # to_ref THEN [errno |-> EXDEV, fs |-> fs]
        ELSE IF from = to THEN [errno |-> 0, fs |-> fs]
        ELSE IF t.type = "dir" /\ f.type # "dir" THEN [errno |-> EISDIR, fs |-> fs]
        ELSE IF t.type = "dir" /\ HasChildren(fs, to_ref, to) THEN [errno |-> ENOTEMPTY, fs |-> fs]
        ELSE [errno |-> 0, fs |-> Moved(fs, ref, from, to)]

\* the fallback as a move that checks nothing and keeps the caller as owner
RenameFallback_Moves(fs, ref, from, to_ref, to, cr, tid, fail) ==
    [rv |-> 0, errno |-> 0,
     fs |-> EtcStore(Removed(fs, ref, from), to_ref, to,
                     [EtcLookup(fs, ref, from) EXCEPT !.uid = cr.euid, !.gid = cr.egid])]

\* the part of m_rename after renameat has failed with EXDEV.  fail: the
\* system call that fails for a reason the files do not show (with EIO).
\* Returns rv, errno and the files.
RenameFallback(fs, ref, from, to_ref, to, cr, tid, fail) ==
    LET stbuf == EtcLookup(fs, ref, from)
        tmp == RenameTmp(tid)
        Out(rv, errno, fl) == [rv |-> rv, errno |-> errno, fs |-> fl]
        \* fchownat, fchmodat, unlinkat of the source
        meta(fl) ==
            LET t == EtcLookup(fl, to_ref, to)
                owned == EtcStore(fl, to_ref, to, [t EXCEPT !.uid = stbuf.uid, !.gid = stbuf.gid])
                moded == EtcStore(owned, to_ref, to,
                                  [t EXCEPT !.uid = stbuf.uid, !.gid = stbuf.gid,
                                            !.mode = stbuf.mode])
            IN  IF fail = "fchownat" THEN Out(-1, EIO, fl)
                ELSE IF ~MayChown(t, cr, stbuf.uid, stbuf.gid) THEN Out(-1, EPERM, fl)
                ELSE IF fail = "fchmodat" THEN Out(-1, EIO, owned)
                ELSE IF cr.euid # 0 /\ cr.euid # stbuf.uid THEN Out(-1, EPERM, owned)
                ELSE IF fail = "unlinkat" THEN Out(-1, EIO, moded)
                ELSE IF stbuf.type = "dir" /\ HasChildren(moded, ref, from)
                     THEN Out(-1, ENOTEMPTY, moded)
                ELSE Out(0, 0, Removed(moded, ref, from))
        made(type, data) ==
            EtcStore(fs, to_ref, to,
                     [type |-> type, uid |-> cr.euid, gid |-> cr.egid, mode |-> stbuf.mode,
                      data |-> data])
    IN  IF fail = "fstatat" THEN Out(-1, EIO, fs)
        ELSE CASE stbuf.type = "lnk" ->
                    IF fail = "readlinkat" THEN Out(-1, EIO, fs)
                    ELSE IF Len(stbuf.data) >= PATH_MAX THEN Out(-1, ENAMETOOLONG, fs)
                    ELSE IF fail = "symlinkat" THEN Out(-1, EIO, fs)
                    ELSE IF EtcLookup(fs, to_ref, to).type # "absent" THEN Out(-1, EEXIST, fs)
                    ELSE meta(made("lnk", stbuf.data))
               [] stbuf.type = "dir" ->
                    IF fail = "mkdirat" THEN Out(-1, EIO, fs)
                    ELSE IF EtcLookup(fs, to_ref, to).type # "absent" THEN Out(-1, EEXIST, fs)
                    ELSE meta(made("dir", <<>>))
               [] OTHER ->
                    LET old == EtcLookup(fs, to_ref, tmp)
                        \* unlinkat(tmp_path); openat(tmp_path, O_CREAT ...)
                        fresh == [type |-> "reg", uid |-> cr.euid, gid |-> cr.egid,
                                  mode |-> stbuf.mode, data |-> <<>>]
                        opened == IF old.type = "dir" THEN fs
                                  ELSE EtcStore(fs, to_ref, tmp, fresh)
                        sized == EtcStore(opened, to_ref, tmp,
                                     [fresh EXCEPT !.data = Truncated(<<>>, Len(stbuf.data))])
                        copied == EtcStore(opened, to_ref, tmp, [fresh EXCEPT !.data = stbuf.data])
                        e == openat(opened, ref, from, [acc |-> O_RDONLY, nofollow |-> TRUE], cr)
                        r == renameat(copied, to_ref, tmp, to_ref, to)
                    IN  IF fail = "openat_tmp" THEN Out(-1, EIO, Removed(fs, to_ref, tmp))
                        ELSE IF old.type = "dir" THEN Out(-1, EISDIR, fs)
                        ELSE IF fail = "openat_from" THEN Out(-1, EIO, opened)
                        ELSE IF e # 0 THEN Out(-1, e, opened)
                        ELSE IF fail = "ftruncate" THEN Out(-1, EIO, opened)
                        ELSE IF fail = "read" THEN Out(-1, EIO, sized)
                        ELSE IF fail = "write" THEN Out(-1, EIO, sized)
                        ELSE IF fail = "renameat_tmp" THEN Out(-1, EIO, copied)
                        ELSE IF r.errno # 0 THEN Out(-1, r.errno, copied)
                        ELSE meta(r.fs)

RenameFails ==
    {"none", "renameat", "fstatat", "readlinkat", "symlinkat", "mkdirat", "openat_tmp",
     "openat_from", "ftruncate", "read", "write", "renameat_tmp", "fchownat", "fchmodat",
     "unlinkat"}

etc_m_rename(st, cr, ctx, from, to, flags, env, tid, fail) ==
    With(EtcSetup(st, cr, ctx, from, env.now, env.sys, env.heap), LAMBDA s :
    LET to_ref == get_ref_fd(s.st.globals, to)
        rto == RPath(to)
    IN  IF s.rv < 0 THEN EtcOut(s.rv, s.st, s.cr, <<>>, {})
        ELSE IF s.rpath = CFG_NAME \/ rto = CFG_NAME
             THEN EtcOut(EtcReturn(-1, EINVAL), s.st, s.cr, <<>>, {})
        ELSE IF flags # 0 THEN EtcOut(EtcReturn(-1, EOPNOTSUPP), s.st, s.cr, <<>>, {})
        ELSE IF fail = "renameat" THEN EtcOut(EtcReturn(-1, EIO), s.st, s.cr, <<>>, {s.cr})
        ELSE With(renameat(s.st.files, s.ref, s.rpath, to_ref, rto), LAMBDA r :
             IF r.errno # EXDEV
             THEN EtcOut(EtcReturn(IF r.errno = 0 THEN 0 ELSE -1, r.errno),
                         [s.st EXCEPT !.files = r.fs], s.cr, <<>>, {s.cr})
             ELSE With(RenameFallback(s.st.files, s.ref, s.rpath, to_ref, rto, s.cr, tid, fail),
                       LAMBDA b :
                       EtcOut(EtcReturn(b.rv, b.errno), [s.st EXCEPT !.files = b.fs], s.cr,
                              <<>>, {s.cr}))))

PathG == <<"/", "g">>
PathL == <<"/", "l">>
RenPaths == {PathL, PathG, ETC_CFG_PATH}
RenCallers == {Caller(uid, uid, <<>>, TRUE) : uid \in Uids}
RenFlags == {0, RENAME_NOREPLACE}
RenTid == "1"
RenEntry(type, uid, data) ==
    [type |-> type, uid |-> uid, gid |-> uid, mode |-> {"S_IRUSR", "S_IWUSR", "S_IRGRP"},
     data |-> data]
\* /l in the local directory and /g in the global one
RenSources ==
    {RenEntry("reg", uid, data) : uid \in Uids, data \in {<<"a", "b">>, <<>>}}
        \cup {RenEntry("lnk", 0, PathX), RenEntry("dir", 0, <<>>)}
RenDests == {NoFile, RenEntry("reg", 0, <<"c">>), RenEntry("dir", 0, <<>>)}
RenTree(src, dst) ==
    [k \in {<<LocalRef, Tail(PathL)>>}
           \cup (IF dst.type = "absent" THEN {} ELSE {<<GlobalRef, Tail(PathG)>>}) |->
        IF k[1] = LocalRef THEN src ELSE dst]
RenBufs == {AddGlobalCmd(PathG), AddOverrideCmd(TYPE_SYMLINK, PathL, PathX)}
RenEnv == Env(e_now, "none", <<>>, "none")

RenInit ==
    /\ cfgs = <<>>
    /\ cfg_size = 0
    /\ root_fds = [fd \in FdPool |-> Closed]
    /\ files = NoFiles
    /\ x_last = Last("none", "other", 0, 0, FALSE, FALSE)
    /\ globals = <<>>
    /\ overrides = <<>>
    /\ e_size = 0
    /\ \E src \in RenSources, dst \in RenDests : e_files = RenTree(src, dst)
    /\ creds = [euid |-> 0, egid |-> 0, groups |-> <<>>]
    /\ e_now = StartTime
    /\ e_last = [op |-> "none", rv |-> 0, cross |-> FALSE, src |-> NoFile, from |-> <<>>,
                 to |-> <<>>, n |-> 0]

\* root writes add_global /g or add_override symlink /l /x to the config file
RenConfig(buf) ==
    \E r \in {etc_m_write(ESt, creds, Caller(0, 0, <<>>, TRUE), ETC_CFG_PATH, buf, 0, RenEnv)} :
        /\ globals' = r.st.globals
        /\ overrides' = r.st.overrides
        /\ e_size' = r.st.size
        /\ e_files' = r.st.files
        /\ creds' = r.cr
        /\ e_last' = [op |-> "write", rv |-> r.rv, cross |-> FALSE, src |-> NoFile,
                      from |-> <<>>, to |-> <<>>, n |-> e_last.n]
        /\ UNCHANGED <<e_now, cross_vars>>

\* the source as the request finds it once FS_IMP_SETUP has run
RenFound(ctx, from) ==
    LET s == EtcSetup(ESt, creds, ctx, from, e_now, "none", <<>>)
    IN  [rv |-> s.rv, st |-> s.st, ref |-> s.ref, rpath |-> s.rpath,
         src |-> EtcLookup(s.st.files, s.ref, s.rpath)]
\* the request copies a regular file from one directory to the other
RenCrosses(ctx, from, to, flags, fail) ==
    LET s == RenFound(ctx, from)
    IN  /\ s.rv = 0
        /\ s.src.type = "reg"
        /\ s.ref # get_ref_fd(globals, to)
        /\ flags = 0 /\ fail # "renameat"
        /\ from # ETC_CFG_PATH /\ to # ETC_CFG_PATH

\* fail names a system call of the copy
RenRename(ctx, from, to, flags, fail) ==
    /\ \E r \in {etc_m_rename(ESt, creds, ctx, from, to, flags, RenEnv, RenTid, fail)} :
          /\ globals' = r.st.globals
          /\ overrides' = r.st.overrides
          /\ e_size' = r.st.size
          /\ e_files' = r.st.files
          /\ creds' = r.cr
          /\ UNCHANGED <<e_now, cross_vars>>
          /\ e_last' = [op |-> "rename", rv |-> r.rv,
                        cross |-> RenCrosses(ctx, from, to, flags, fail),
                        src |-> RenFound(ctx, from).src, from |-> from, to |-> to,
                        n |-> e_last.n + 1]

RenNext ==
    \/ \E buf \in RenBufs : RenConfig(buf)
    \/ \E ctx \in RenCallers, from \in RenPaths \ {ETC_CFG_PATH}, to \in RenPaths \ {ETC_CFG_PATH} :
          /\ e_last.n < MaxRenames
          /\ \E flags \in RenFlags :
                \E fail \in (IF RenCrosses(ctx, from, to, flags, "none") THEN RenameFails
                              ELSE {"none", "renameat"}) :
                    RenRename(ctx, from, to, flags, fail)

SpecRename == RenInit /\ [][RenNext]_vars

\* the destination holds a regular file with the bytes, mode and owner of src
CopyOf(fs, ref, rpath, src) ==
    LET t == EtcLookup(fs, ref, rpath)
    IN  /\ t.type = "reg" /\ t.data = src.data /\ t.mode = src.mode
        /\ t.uid = src.uid /\ t.gid = src.gid

\* the two parts of C21 about the copy: a copy that returns 0 leaves the
\* destination with the source's bytes, mode, uid and gid and no source; one
\* that fails at any system call leaves the source as it was
RenCopies(ctx, from, to) ==
    With(RenFound(ctx, from), LAMBDA s :
    RenCrosses(ctx, from, to, 0, "none") =>
        \A fail \in RenameFails \ {"renameat"} :
            With(etc_m_rename(ESt, creds, ctx, from, to, 0, RenEnv, RenTid, fail), LAMBDA r :
            /\ r.rv = 0 =>
                  /\ CopyOf(r.st.files, get_ref_fd(globals, to), RPath(to), s.src)
                  /\ EtcLookup(r.st.files, s.ref, s.rpath).type = "absent"
            /\ r.rv < 0 => EtcLookup(r.st.files, s.ref, s.rpath) = s.src))

STATE_DIR ==
    <<"/", "b", "e", "d", "r", "o", "c", "k", "/", "r", "u", "n", "/",
      "e", "n", "a", "b", "l", "e", "d", "_", "s", "t", "r", "a", "t", "a", "/">>
RESTRICTED_CMD_DIR ==
    <<"/", "b", "e", "d", "r", "o", "c", "k", "/", "r", "u", "n", "/",
      "r", "e", "s", "t", "r", "i", "c", "t", "e", "d", "_", "c", "m", "d", "s", "/">>
CROSS_DIR == <<"/", "b", "e", "d", "r", "o", "c", "k", "/", "c", "r", "o", "s", "s">>
LOCAL_ALIAS == <<"l", "o", "c", "a", "l">>
EMLINK == 31

\* strchr(s + from - 1, ch): the index in s of the first ch at or after from,
\* 0 for NULL
strchr(s, from, ch) ==
    IF \E i \in from..Len(s) : s[i] = ch
    THEN CHOOSE i \in from..Len(s) : s[i] = ch /\ \A j \in from..(i - 1) : s[j] # ch
    ELSE 0
\* strrchr(s, ch)
strrchr(s, ch) ==
    IF \E i \in 1..Len(s) : s[i] = ch
    THEN CHOOSE i \in 1..Len(s) : s[i] = ch /\ \A j \in (i + 1)..Len(s) : s[j] # ch
    ELSE 0
\* strncmp(s + from - 1, w, strlen(w)) == 0
strncmp0(s, from, w) == HasPrefix(SubSeq(s, from, Len(s)), w)

Opt(short, long) == {<<"-", short>>, <<"-", "-">> \o long}
OptHelp == Opt("h", <<"h", "e", "l", "p">>)
OptRestrict == Opt("r", <<"r", "e", "s", "t", "r", "i", "c", "t">>)
OptUnrestrict == Opt("u", <<"u", "n", "r", "e", "s", "t", "r", "i", "c", "t">>)
OptNamespace == Opt("n", <<"n", "a", "m", "e", "s", "p", "a", "c", "e">>)
OptArg0 == Opt("a", <<"a", "r", "g", "0">>)

\* parse_args: args is argv + 1; exit: the status exit() is called with, -1
\* when it is not called
RECURSIVE ParseLoop(_, _)
ParseLoop(args, p) ==
    IF args # <<>> /\ args[1] \in OptHelp THEN [p EXCEPT !.flag_help = TRUE]
    ELSE IF args # <<>> /\ args[1] \in OptRestrict
         THEN ParseLoop(Tail(args), [p EXCEPT !.flag_restrict = TRUE])
    ELSE IF args # <<>> /\ args[1] \in OptUnrestrict
         THEN ParseLoop(Tail(args), [p EXCEPT !.flag_unrestrict = TRUE])
    ELSE IF args # <<>> /\ args[1] \in OptNamespace
         THEN ParseLoop(Tail(args), [p EXCEPT !.flag_namespace = TRUE])
    ELSE IF Len(args) > 1 /\ args[1] \in OptArg0
         THEN ParseLoop(Tail(Tail(args)), [p EXCEPT !.arg0 = <<args[2]>>])
    ELSE IF args # <<>> THEN [p EXCEPT !.stratum = args[1], !.arglist = Tail(args)]
    ELSE [p EXCEPT !.exit = 1]

\* arg0: <<>> for NULL, <<s>> for the string s
parse_args(argv) ==
    ParseLoop(Tail(argv),
              [flag_help |-> FALSE, flag_restrict |-> FALSE, flag_unrestrict |-> FALSE,
               flag_namespace |-> FALSE, stratum |-> <<>>, arg0 |-> <<>>, arglist |-> <<>>,
               exit |-> -1])

check_config_secure_LeafOnly(path, fs) ==
    IF strrchr(path, "/") = 0 THEN 0
    ELSE IF path \notin DOMAIN fs THEN ENOENT
    ELSE IF fs[path].type = "lnk" THEN EMLINK
    ELSE IF fs[path].uid # 0 THEN EACCES
    ELSE IF fs[path].loose THEN EACCES
    ELSE 0

\* check_config_secure: 0, or the errno it returns -1 with
RECURSIVE check_config_secure(_, _)
check_config_secure(path, fs) ==
    LET p == strrchr(path, "/")
    IN  IF p = 0 THEN 0
        ELSE IF path \notin DOMAIN fs THEN ENOENT
        ELSE IF fs[path].type = "lnk" THEN EMLINK
        ELSE IF fs[path].uid # 0 THEN EACCES
        ELSE IF fs[path].loose THEN EACCES
        ELSE check_config_secure(SubSeq(path, 1, p - 1), fs)

\* file: <<>> for NULL, <<s>> for the string s
check_cmd_restricted(file, fs) ==
    IF file = <<>> \/ file[1] = <<>> THEN FALSE
    ELSE LET f == file[1]
             cmd == SubSeq(f, strrchr(f, "/") + 1, Len(f))
         IN  check_config_secure(RESTRICTED_CMD_DIR \o cmd, fs) = 0

\* the loop of restrict_envvar: start is an index into val
RECURSIVE RestrictLoop(_, _, _)
RestrictLoop(val, start, new_val) ==
    LET end == strchr(val, start, ":")
        sep == IF new_val # <<>> THEN <<":">> ELSE <<>>
    IN  IF end = 0
        THEN IF ~strncmp0(val, start, CROSS_DIR)
             THEN new_val \o sep \o SubSeq(val, start, Len(val))
             ELSE new_val
        ELSE IF strncmp0(val, start, CROSS_DIR) THEN RestrictLoop(val, end + 1, new_val)
        ELSE LET cat == new_val \o sep \o SubSeq(val, start, end - 1)
             IN  \* new_val[end - val] = '\0'
                 RestrictLoop(val, end + 1, SubSeq(cat, 1, Min2(Len(cat), end - 1)))

EnvUnset == [set |-> FALSE, val |-> <<>>]
EnvSet(val) == [set |-> TRUE, val |-> val]

\* restrict_envvar: what the variable holds afterwards
restrict_envvar(v) == IF ~v.set THEN v ELSE EnvSet(RestrictLoop(v.val, 1, <<>>))

BIN_SH == <<"/", "b", "i", "n", "/", "s", "h">>
RestrictedVars == {"PATH", "MANPATH", "INFOPATH", "XDG_DATA_DIRS"}

\* restrict_env: fail, a call of setenv that fails; setenv is not called for
\* a variable that is not set
restrict_env(env, fail) ==
    LET new == [n \in DOMAIN env |->
                   IF n \in RestrictedVars THEN (IF fail = n THEN env[n] ELSE restrict_envvar(env[n]))
                   ELSE IF n = "SHELL" THEN (IF fail = n THEN env[n] ELSE EnvSet(BIN_SH))
                   ELSE IF n = "BEDROCK_RESTRICT"
                        THEN (IF fail = n THEN env[n] ELSE EnvSet(<<"1">>))
                   ELSE env[n]]
        failed == fail \in {"SHELL", "BEDROCK_RESTRICT"}
                      \/ (fail \in RestrictedVars /\ env[fail].set)
    IN  [rv |-> IF failed THEN -1 ELSE 0, env |-> new]

\* break_out_of_chroot; root: "init" the root strat was started in, "ref" the
\* reference directory, "real" the real root
\* trace: the calls of chroot, unshare, pivot_root and mount that were made
break_out_of_chroot(fail) ==
    IF fail = "chroot_ref"
    THEN [rv |-> -1, root |-> "init", cwd |-> "/", trace |-> <<"chroot">>]
    ELSE IF fail = "chroot_dot"
    THEN [rv |-> -1, root |-> "ref", cwd |-> "/", trace |-> <<"chroot", "chroot">>]
    ELSE [rv |-> 0, root |-> "real", cwd |-> "/", trace |-> <<"chroot", "chroot">>]

\* chroot_to_stratum: neither stat is checked; after a failed stat the test
\* reads a struct stat that was never written, garbage is what the test of
\* dev and ino then gives
chroot_to_stratum(at_root, fail, garbage) ==
    LET same == IF fail \in {"stat_root", "stat_stratum"} THEN garbage ELSE at_root
    IN  IF same THEN [rv |-> 0, root |-> "real", cwd |-> "/", trace |-> <<>>]
        ELSE IF fail = "chdir_stratum"
        THEN [rv |-> -1, root |-> "real", cwd |-> "/", trace |-> <<>>]
        ELSE IF fail = "chroot_stratum"
        THEN [rv |-> -1, root |-> "real", cwd |-> "stratum", trace |-> <<"chroot">>]
        ELSE [rv |-> 0, root |-> "stratum", cwd |-> "/", trace |-> <<"chroot">>]

PivotFails == {"unshare", "mount_private", "pivot_root", "mount_move"}
pivot_root_to_stratum(fail) ==
    LET all == <<"unshare", "mount", "pivot_root", "mount", "mount", "mount", "mount">>
        made == IF fail = "unshare" THEN 1 ELSE IF fail = "mount_private" THEN 2
                ELSE IF fail = "pivot_root" THEN 3 ELSE IF fail = "mount_move" THEN 4
                ELSE Len(all)
    IN  IF fail \in PivotFails
        THEN [rv |-> -1, root |-> "real", cwd |-> "/", trace |-> SubSeq(all, 1, made)]
        ELSE [rv |-> 0, root |-> "stratum", cwd |-> "/", trace |-> all]

\* the file system check_config_secure looks at: every parent of path is a
\* directory of root, path itself is of kind
SecureKinds == {"secure", "absent", "symlink", "nonroot", "loose"}
RECURSIVE Parents(_)
Parents(path) ==
    LET p == strrchr(path, "/")
    IN  IF p = 0 THEN {} ELSE {path} \cup Parents(SubSeq(path, 1, p - 1))
SecureFs(path, kind) ==
    [q \in Parents(path) \ (IF kind = "absent" THEN {path} ELSE {}) |->
        IF q # path THEN [type |-> "dir", uid |-> 0, loose |-> FALSE]
        ELSE [type |-> IF kind = "symlink" THEN "lnk" ELSE "reg",
              uid |-> IF kind = "nonroot" THEN 1000 ELSE 0,
              loose |-> kind = "loose"]]

\* trace of switch_stratum: the checks that succeeded and the calls of
\* chroot, unshare, pivot_root and mount that were made, each with the path
\* that was checked
switch_stratum_NoSecureCheck(alias, namespace, sys) ==
    LET stay == [root |-> "init", cwd |-> "orig"]
        Made(calls) == [i \in 1..Len(calls) |-> <<calls[i], <<>>>>]
        out == break_out_of_chroot(sys.fail)
        in == IF namespace THEN pivot_root_to_stratum(sys.fail)
              ELSE chroot_to_stratum(sys.at_root, sys.fail, sys.garbage)
        cap == <<<<"check_capsyschroot", <<>>>>>>
    IN  IF alias = LOCAL_ALIAS THEN [rv |-> 0, trace |-> <<>>] @@ stay
        ELSE IF sys.current = alias THEN [rv |-> 0, trace |-> <<>>] @@ stay
        ELSE IF sys.fail = "check_capsyschroot" THEN [rv |-> -1, trace |-> <<>>] @@ stay
        ELSE [rv |-> IF out.rv < 0 THEN out.rv ELSE in.rv,
              root |-> IF out.rv < 0 THEN out.root ELSE in.root, cwd |-> "/",
              trace |-> cap \o Made(out.trace) \o (IF out.rv < 0 THEN <<>> ELSE Made(in.trace))]

\* switch_stratum; sys: fail the call that fails, garbage, current the
\* stratum xattr of /, state the kind of the state file, at_root whether the
\* stratum is the one at the real root
switch_stratum(alias, namespace, sys) ==
    LET stay == [root |-> "init", cwd |-> "orig"]
        stratum == alias
        state_file_path == STATE_DIR \o stratum
        cap == <<<<"check_capsyschroot", <<>>>>>>
        sec == cap \o <<<<"check_config_secure", state_file_path>>>>
        Made(calls) == [i \in 1..Len(calls) |-> <<calls[i], <<>>>>]
        out == break_out_of_chroot(sys.fail)
        in == IF namespace THEN pivot_root_to_stratum(sys.fail)
              ELSE chroot_to_stratum(sys.at_root, sys.fail, sys.garbage)
        outs == sec \o Made(out.trace)
        ins == outs \o Made(in.trace)
    IN  IF alias = LOCAL_ALIAS THEN [rv |-> 0, trace |-> <<>>] @@ stay
        ELSE IF sys.fail = "deref_alias" THEN [rv |-> -1, trace |-> <<>>] @@ stay
        ELSE IF sys.fail = "getxattr" THEN [rv |-> -ENOTSUP, trace |-> <<>>] @@ stay
        ELSE IF sys.current = stratum THEN [rv |-> 0, trace |-> <<>>] @@ stay
        ELSE IF sys.fail = "check_capsyschroot" THEN [rv |-> -1, trace |-> <<>>] @@ stay
        ELSE IF sys.fail = "getcwd" THEN [rv |-> -1, trace |-> cap] @@ stay
        ELSE IF check_config_secure(state_file_path, SecureFs(state_file_path, sys.state)) # 0
             THEN [rv |-> -1, trace |-> cap] @@ stay
        ELSE IF out.rv < 0 THEN [out EXCEPT !.trace = outs]
        ELSE IF in.rv < 0 THEN [in EXCEPT !.trace = ins]
        ELSE IF sys.fail = "chdir_cwd"
             THEN [rv |-> 0, root |-> in.root, cwd |-> "/", trace |-> ins]
        ELSE [rv |-> 0, root |-> in.root, cwd |-> "orig", trace |-> ins]

\* the loop of execv_skip: the first entry at which execv succeeds
RECURSIVE ExecLoop_NoSkip(_, _, _, _, _)
ExecLoop_NoSkip(path, start, file, skip, exists) ==
    LET end == strchr(path, start, ":")
        last == IF end = 0 THEN Len(path) ELSE end - 1
        dir == SubSeq(path, start, last)
        entry == dir \o <<"/">> \o file
    IN  IF entry \in exists THEN [execd |-> <<entry>>, via |-> <<dir>>]
        ELSE IF end = 0 THEN [execd |-> <<>>, via |-> <<>>]
        ELSE ExecLoop_NoSkip(path, end + 1, file, skip, exists)

RECURSIVE ExecLoop(_, _, _, _, _)
ExecLoop(path, start, file, skip, exists) ==
    LET end == strchr(path, start, ":")
        last == IF end = 0 THEN Len(path) ELSE end - 1
        dir == SubSeq(path, start, last)
        entry == dir \o <<"/">> \o file
    IN  IF ~strncmp0(path, start, skip) /\ entry \in exists
        THEN [execd |-> <<entry>>, via |-> <<dir>>]
        ELSE IF end = 0 THEN [execd |-> <<>>, via |-> <<>>]
        ELSE ExecLoop(path, end + 1, file, skip, exists)

DefaultPath == <<"/", "u", "s", "r", "/", "b", "i", "n", ":", "/", "b", "i", "n">>

\* execv_skip: file is <<>> for NULL; execd the path execv succeeded on, <<>>
\* when execv_skip returns; via the PATH entry it was built from
execv_skip(file, env, skip, exists) ==
    IF file = <<>> \/ file[1] = <<>> THEN [execd |-> <<>>, via |-> <<>>]
    ELSE IF strchr(file[1], 1, "/") # 0
         THEN [execd |-> IF file[1] \in exists THEN file ELSE <<>>, via |-> <<>>]
    ELSE ExecLoop(IF env["PATH"].set THEN env["PATH"].val ELSE DefaultPath,
                  1, file[1], skip, exists)

\* main, lines 667-675: the calls of restrict_env it makes
MainRestricts_IgnoresUnrestrict(p, marked) ==
    IF p.flag_restrict THEN 1 ELSE IF marked THEN 1 ELSE 0
MainRestricts(p, marked) ==
    IF p.flag_unrestrict THEN 0
    ELSE (IF p.flag_restrict THEN 1 ELSE 0) + (IF marked THEN 1 ELSE 0)

\* main, lines 685-718: the file that is run
MainExec(p, env, exists) ==
    IF p.arglist # <<>> THEN execv_skip(<<p.arglist[1]>>, env, CROSS_DIR, exists)
    ELSE LET shell == env["SHELL"]
             file == IF shell.set
                     THEN <<SubSeq(shell.val, strrchr(shell.val, "/") + 1, Len(shell.val))>>
                     ELSE <<>>
             first == execv_skip(file, env, CROSS_DIR, exists)
         IN  IF first.execd # <<>> THEN first
             ELSE execv_skip(<<BIN_SH>>, env, CROSS_DIR, exists)

(***************************************************************************)
(* SpecStrat: one run of strat.  e_last is the process: its arguments and  *)
(* environment, where main is, and what it has done.                       *)
(***************************************************************************)
MaxOpts == 2
MaxEntries == 2

StratS == <<"s">>
StratLs == <<"l", "s">>
UsrDir == <<"/", "u">>
CrossBin == CROSS_DIR \o <<"/", "b">>
OptTokens == {<<"-", "r">>, <<"-", "u">>, <<"-", "n">>, <<"-", "a">>}
RECURSIVE SeqsUpTo(_, _)
SeqsUpTo(S, n) ==
    IF n = 0 THEN {<<>>}
    ELSE LET shorter == SeqsUpTo(S, n - 1)
         IN  shorter \cup {Append(q, x) : q \in shorter, x \in S}
StratCmds == {<<>>, <<StratLs>>, <<UsrDir \o <<"/">> \o StratLs>>,
              <<CrossBin \o <<"/">> \o StratLs>>, <<StratLs, <<"-", "r">>>>}
StratArgv ==
    {<<<<"s", "t", "r", "a", "t">>>> \o o \o t : o \in SeqsUpTo(OptTokens, MaxOpts),
        t \in {<<>>} \cup {<<a>> \o c : a \in {StratS, LOCAL_ALIAS}, c \in StratCmds}}

PathEntries == {<<>>, UsrDir, CrossBin}
RECURSIVE JoinColon(_)
JoinColon(es) ==
    IF es = <<>> THEN <<>>
    ELSE IF Len(es) = 1 THEN es[1]
    ELSE es[1] \o <<":">> \o JoinColon(Tail(es))
PathVals ==
    {EnvUnset} \cup {EnvSet(JoinColon(es)) : es \in SeqsUpTo(PathEntries, MaxEntries) \ {<<>>}}
StratEnvs ==
    {[PATH |-> pv, MANPATH |-> mv, INFOPATH |-> EnvUnset,
      XDG_DATA_DIRS |-> EnvSet(JoinColon(<<CrossBin, <<>>, UsrDir>>)),
      SHELL |-> sh, BEDROCK_RESTRICT |-> EnvUnset] :
        pv \in PathVals, mv \in {EnvUnset, EnvSet(JoinColon(<<UsrDir, CrossBin>>))},
        sh \in {EnvUnset, EnvSet(CrossBin \o <<"/">> \o StratLs)}}
\* every command line in one environment, and every environment with the
\* command lines strat s and strat s ls
StratEnv ==
    [PATH |-> EnvSet(JoinColon(<<CrossBin, UsrDir>>)), MANPATH |-> EnvUnset,
     INFOPATH |-> EnvUnset, XDG_DATA_DIRS |-> EnvSet(JoinColon(<<CrossBin, <<>>, UsrDir>>)),
     SHELL |-> EnvUnset, BEDROCK_RESTRICT |-> EnvUnset]
StratRuns ==
    (StratArgv \X {StratEnv})
        \cup ({<<<<"s", "t", "r", "a", "t">>, StratS>> \o c : c \in {<<>>, <<StratLs>>}}
                \X StratEnvs)
StratExists ==
    SUBSET {UsrDir \o <<"/">> \o StratLs, CrossBin \o <<"/">> \o StratLs,
            <<"/">> \o StratLs, BIN_SH}
SwitchFails ==
    {"none", "deref_alias", "getxattr", "check_capsyschroot", "getcwd", "chroot_ref",
     "chroot_dot", "stat_root", "stat_stratum", "chdir_stratum", "chroot_stratum",
     "chdir_cwd"} \cup PivotFails
NoSys == [fail |-> "none", garbage |-> FALSE, current |-> <<>>, state |-> "secure",
          at_root |-> FALSE]
\* one thing differs from a run in which every call succeeds
SwitchSys ==
    LET ok == [NoSys EXCEPT !.current = <<"t">>]
    IN  {[ok EXCEPT !.fail = f] : f \in SwitchFails}
            \cup {[ok EXCEPT !.fail = f, !.garbage = TRUE] : f \in {"stat_root", "stat_stratum"}}
            \cup {[ok EXCEPT !.state = k] : k \in SecureKinds}
            \cup {[ok EXCEPT !.current = StratS]}
            \cup {[ok EXCEPT !.at_root = TRUE, !.fail = f] : f \in {"none", "chdir_cwd"}}
NoParse == parse_args(<<<<>>>>)

StratProc(argv, env) ==
    [pc |-> "main", argv |-> argv, env0 |-> env, env |-> env, p |-> NoParse,
     marker |-> "absent", envfail |-> "none", calls |-> 0, sys |-> NoSys, trace |-> <<>>,
     root |-> "init", cwd |-> "orig", status |-> -1, execd |-> <<>>, via |-> <<>>]

StratInit ==
    /\ cfgs = <<>>
    /\ cfg_size = 0
    /\ root_fds = [fd \in FdPool |-> Closed]
    /\ files = NoFiles
    /\ x_last = Last("none", "other", 0, 0, FALSE, FALSE)
    /\ globals = <<>>
    /\ overrides = <<>>
    /\ e_size = 0
    /\ e_files = <<>>
    /\ creds = <<>>
    /\ e_now = StartTime
    /\ \E run \in StratRuns : e_last = StratProc(run[1], run[2])

\* main, lines 659-665
StratParse ==
    /\ e_last.pc = "main"
    /\ \E p \in {parse_args(e_last.argv)} :
        e_last' = [e_last EXCEPT !.p = p,
                      !.pc = IF p.exit >= 0 \/ p.flag_help THEN "exit" ELSE "parsed",
                      !.status = IF p.exit >= 0 THEN p.exit ELSE IF p.flag_help THEN 0 ELSE -1]
    /\ UNCHANGED <<cross_vars, globals, overrides, e_size, e_files, creds, e_now>>

RECURSIVE RestrictTimes(_, _)
RestrictTimes(env, n) ==
    IF n = 0 THEN env ELSE RestrictTimes(restrict_env(env, "none").env, n - 1)

\* main, lines 667-675; kind is what is at the path of the marker file of
\* the command, fail the call of setenv that fails
StratRestrict(kind, fail) ==
    /\ e_last.pc = "parsed"
    /\ LET p == e_last.p
           file == IF p.arglist = <<>> THEN <<>> ELSE <<p.arglist[1]>>
           name == IF file = <<>> THEN <<>>
                   ELSE SubSeq(file[1], strrchr(file[1], "/") + 1, Len(file[1]))
           path == RESTRICTED_CMD_DIR \o name
           marked == check_cmd_restricted(file, SecureFs(path, kind))
           calls == MainRestricts(p, marked)
           first == restrict_env(e_last.env, fail)
       IN  IF calls > 0 /\ first.rv < 0
           THEN e_last' = [e_last EXCEPT !.pc = "exit", !.status = 1, !.env = first.env,
                              !.marker = kind, !.envfail = fail]
           ELSE e_last' = [e_last EXCEPT !.pc = "restricted", !.calls = calls,
                              !.env = RestrictTimes(e_last.env, calls),
                              !.marker = kind]
    /\ UNCHANGED <<cross_vars, globals, overrides, e_size, e_files, creds, e_now>>

\* main, lines 677-679
StratSwitch(sys) ==
    /\ e_last.pc = "restricted"
    /\ \E r \in {switch_stratum(e_last.p.stratum, e_last.p.flag_namespace, sys)} :
        e_last' = [e_last EXCEPT !.pc = IF r.rv < 0 THEN "exit" ELSE "switched",
                      !.status = IF r.rv < 0 THEN 1 ELSE -1,
                      !.sys = sys, !.trace = r.trace, !.root = r.root, !.cwd = r.cwd]
    /\ UNCHANGED <<cross_vars, globals, overrides, e_size, e_files, creds, e_now>>

\* main, lines 681-738
StratExec(exists) ==
    /\ e_last.pc = "switched"
    /\ \E r \in {MainExec(e_last.p, e_last.env, exists)} :
        e_last' = [e_last EXCEPT !.pc = IF r.execd = <<>> THEN "exit" ELSE "exec",
                      !.status = IF r.execd = <<>> THEN 1 ELSE -1,
                      !.execd = r.execd, !.via = r.via]
    /\ UNCHANGED <<cross_vars, globals, overrides, e_size, e_files, creds, e_now>>

StratNext ==
    \/ StratParse
    \/ \E kind \in {"secure", "absent", "loose"}, fail \in {"none", "PATH", "SHELL"} : StratRestrict(kind, fail)
    \/ \E sys \in SwitchSys : StratSwitch(sys)
    \/ \E exists \in StratExists : StratExec(exists)

SpecStrat == StratInit /\ [][StratNext]_vars

\* restrict_env has been applied to the environment of the process
Restricted == e_last.env["BEDROCK_RESTRICT"] = EnvSet(<<"1">>)
\* main has passed lines 667-675
PastRestrict == e_last.pc \in {"restricted", "switched", "exec"}
\* the marker file of the command exists and passes check_config_secure
MarkerOk == e_last.p.arglist # <<>> /\ e_last.marker = "secure"

\* C22 as stated: strat applies the restricted environment iff -r is given,
\* or no restriction flag is given and the marker file of the command exists
\* and is secure; -r forces restriction whatever other flag is given.
C22_RestrictedIffFlagOrMarker ==
    PastRestrict =>
        (Restricted <=>
            \/ e_last.p.flag_restrict
            \/ ~e_last.p.flag_restrict /\ ~e_last.p.flag_unrestrict /\ MarkerOk)

\* C22 amended: strat applies the restricted environment iff -u is not given
\* and either -r is given or the marker file of the command exists and is
\* secure; -u yields an unrestricted run also when -r is given.
C22_RestrictedUnlessUnrestrict ==
    PastRestrict =>
        /\ Restricted <=> (~e_last.p.flag_unrestrict /\ (e_last.p.flag_restrict \/ MarkerOk))
        /\ ~Restricted => e_last.env = e_last.env0

C22_Witness ==
    /\ e_last.pc = "exec"
    /\ Restricted
    /\ ~e_last.p.flag_restrict
    /\ e_last.marker = "secure"

\* the root the command has to run in
InTargetRoot ==
    IF e_last.p.stratum = LOCAL_ALIAS \/ e_last.sys.current = e_last.p.stratum
    THEN e_last.root = "init"
    ELSE e_last.root = "stratum" \/ (e_last.root = "real" /\ e_last.sys.at_root)

\* C23: strat never reaches exec after a failed step: a command is run only
\* in the root of the stratum asked for, a run that does not get there exits
\* with status 1, and the working directory is the original one or, when
\* it could not be restored, /.
C23_NoExecAfterFailedStep ==
    /\ e_last.pc \in {"switched", "exec"} =>
        /\ InTargetRoot
        /\ e_last.cwd = "orig" \/ (e_last.sys.fail = "chdir_cwd" /\ e_last.cwd = "/")
    /\ e_last.pc = "exit" /\ e_last.sys # NoSys /\ ~InTargetRoot =>
        e_last.status = 1 /\ e_last.execd = <<>>

RootCalls == {"chroot", "unshare", "pivot_root", "mount"}
Switched == e_last.pc \in {"switched", "exec"} \/ (e_last.pc = "exit" /\ e_last.sys # NoSys)
StaysPut == e_last.p.stratum = LOCAL_ALIAS \/ e_last.sys.current = e_last.p.stratum

\* C36: switch_stratum makes no call of chroot, unshare, pivot_root or mount
\* unless, earlier in the run, check_capsyschroot and check_config_secure of
\* /bedrock/run/enabled_strata/<target> have both succeeded; for the alias
\* local and for a target that is the current stratum it makes none of these
\* calls and the root is unchanged at exec.
C36_RootCallsAfterChecks ==
    /\ \A i \in 1..Len(e_last.trace) :
        e_last.trace[i][1] \in RootCalls =>
            /\ \E j \in 1..(i - 1) : e_last.trace[j][1] = "check_capsyschroot"
            /\ \E j \in 1..(i - 1) :
                /\ e_last.trace[j] = <<"check_config_secure", STATE_DIR \o e_last.p.stratum>>
                /\ e_last.sys.state = "secure"
    /\ Switched /\ StaysPut =>
        /\ \A i \in 1..Len(e_last.trace) : e_last.trace[i][1] \notin RootCalls
        /\ e_last.root = "init"

C36_Witness ==
    /\ e_last.pc = "exec"
    /\ e_last.p.flag_namespace
    /\ Len(e_last.trace) = 11
    /\ e_last.root = "stratum"

AllExist == CHOOSE x \in StratExists : \A y \in StratExists : y \subseteq x

\* C24 as stated: whatever PATH and the command are, the file strat runs is
\* not reached through a PATH entry beginning with /bedrock/cross, so that a
\* run of strat never runs a file of the crossfs mount.
C24_NeverExecsUnderCross ==
    /\ e_last.via # <<>> => ~HasPrefix(e_last.via[1], CROSS_DIR)
    /\ e_last.execd # <<>> => ~HasPrefix(e_last.execd[1], CROSS_DIR)

\* C24 amended: whatever PATH and the command are, a file strat finds by
\* searching PATH is not found through an entry beginning with
\* /bedrock/cross, also for the $SHELL and /bin/sh fallbacks; a command
\* with a / in it is run as given, wherever it is.
C24_NeverViaCrossEntry ==
    /\ e_last.via # <<>> => ~HasPrefix(e_last.via[1], CROSS_DIR)
    /\ e_last.pc = "switched" =>
        \A exists \in StratExists :
            LET r == MainExec(e_last.p, e_last.env, exists)
            IN  /\ r.via # <<>> => ~HasPrefix(r.via[1], CROSS_DIR)
                /\ r.execd # <<>> /\ HasPrefix(r.execd[1], CROSS_DIR) =>
                    /\ e_last.p.arglist # <<>>
                    /\ r.execd[1] = e_last.p.arglist[1]

C24_Witness ==
    /\ e_last.pc = "switched"
    /\ e_last.env["PATH"].set
    /\ HasPrefix(e_last.env["PATH"].val, CROSS_DIR)
    /\ e_last.p.arglist = <<>>
    /\ MainExec(e_last.p, e_last.env, AllExist).via = <<UsrDir>>

RECURSIVE SplitColon(_)
SplitColon(val) ==
    LET end == strchr(val, 1, ":")
    IN  IF end = 0 THEN <<val>>
        ELSE <<SubSeq(val, 1, end - 1)>> \o SplitColon(SubSeq(val, end + 1, Len(val)))
NotCross(es) == SelectSeq(es, LAMBDA e : ~HasPrefix(e, CROSS_DIR))

\* C25: when restriction is in effect, each of PATH, MANPATH, INFOPATH and
\* XDG_DATA_DIRS that was set holds exactly its original entries that do not
\* begin with /bedrock/cross, in their order, SHELL is /bin/sh and
\* BEDROCK_RESTRICT is 1; a variable that was unset stays unset.
C25_RestrictEnvFilters ==
    PastRestrict /\ Restricted =>
        /\ \A n \in RestrictedVars :
              IF e_last.env0[n].set
              THEN e_last.env[n] = EnvSet(JoinColon(NotCross(SplitColon(e_last.env0[n].val))))
              ELSE e_last.env[n] = EnvUnset
        /\ e_last.env["SHELL"] = EnvSet(BIN_SH)
        /\ e_last.env["BEDROCK_RESTRICT"] = EnvSet(<<"1">>)

(***************************************************************************)
(* bouncer.  An element of argv is <<>> for NULL and <<s>> for a pointer   *)
(* to the string s; an xattr of /proc/self/exe is [set, val].              *)
(***************************************************************************)
\* the C string in a buffer that holds val followed by a NUL byte
BufStr(val) ==
    LET nul == strchr(val, 1, NulByte)
    IN  IF nul = 0 THEN val ELSE SubSeq(val, 1, nul - 1)

\* getxattr("/proc/self/exe", name, buf, size): the length, or -1
ExeXattr(x, size) == IF ~x.set \/ Len(x.val) > size THEN -1 ELSE Len(x.val)

BOUNCER_STRAT ==
    <<"/", "b", "e", "d", "r", "o", "c", "k", "/", "b", "i", "n", "/", "s", "t", "r", "a", "t">>
ARG0_OPT == <<"-", "-", "a", "r", "g", "0">>
RESTRICT_OPT == <<"-", "-", "r", "e", "s", "t", "r", "i", "c", "t">>

Slot(s) == [set |-> TRUE, p |-> <<s>>]
NullSlot == [set |-> TRUE, p |-> <<>>]
NoSlot == [set |-> FALSE, p |-> <<>>]

RECURSIVE BouncerCopy_NoShift(_, _, _, _)
BouncerCopy_NoShift(new_argv, argv, i, restrict_flag) ==
    IF i > Len(argv) - 1 THEN new_argv
    ELSE BouncerCopy_NoShift([new_argv EXCEPT ![i + 4] = Slot(argv[i + 1])],
                             argv, i + 1, restrict_flag)

\* the loop of lines 95-97, from i on
RECURSIVE BouncerCopy(_, _, _, _)
BouncerCopy(new_argv, argv, i, restrict_flag) ==
    IF i > Len(argv) - 1 THEN new_argv
    ELSE BouncerCopy([new_argv EXCEPT ![i + 4 + restrict_flag] = Slot(argv[i + 1])],
                     argv, i + 1, restrict_flag)

\* new_argv of main, lines 88-98; argv[i] of the code is argv[i + 1] here
BouncerArgv(argv, restrict_flag, target_stratum, target_path) ==
    LET argc == Len(argv)
        a0 == [i \in 0..(argc + 5) |-> NoSlot]
        a1 == [a0 EXCEPT ![0] = Slot(BOUNCER_STRAT), ![1] = Slot(ARG0_OPT),
                         ![2] = IF argc > 0 THEN Slot(argv[1]) ELSE NullSlot]
        a2 == IF restrict_flag = 1 THEN [a1 EXCEPT ![3] = Slot(RESTRICT_OPT)] ELSE a1
        a3 == [a2 EXCEPT ![3 + restrict_flag] = Slot(target_stratum),
                         ![4 + restrict_flag] = Slot(target_path)]
        a4 == BouncerCopy(a3, argv, 1, restrict_flag)
    IN  [a4 EXCEPT ![argc + 4 + restrict_flag] = NullSlot]

\* main of bouncer; x the xattrs of /proc/self/exe, fail whether execv fails
bouncer_main(argv, x, fail) ==
    LET none == [i \in {} |-> NoSlot]
        slen == ExeXattr(x.stratum, PATH_MAX - 1)
        plen == ExeXattr(x.localpath, PATH_MAX - 1)
        rlen == ExeXattr(x.restrict, PATH_MAX - 1)
        restrict_flag == IF rlen >= 0 THEN 1 ELSE 0
        new_argv == BouncerArgv(argv, restrict_flag, BufStr(x.stratum.val),
                                BufStr(x.localpath.val))
    IN  IF slen < 0 THEN [execv |-> <<>>, new_argv |-> none, exec |-> FALSE, status |-> ENOTSUP]
        ELSE IF plen < 0
             THEN [execv |-> <<>>, new_argv |-> none, exec |-> FALSE, status |-> ENOTSUP]
        ELSE [execv |-> <<BOUNCER_STRAT>>, new_argv |-> new_argv, exec |-> ~fail,
              status |-> IF fail THEN 1 ELSE -1]

(***************************************************************************)
(* SpecBouncer: one run of bouncer; e_last is the process.                 *)
(***************************************************************************)
MaxArgc == 3

BouncerArgs == {StratLs, <<"-", "r">>}
BouncerArgvs == SeqsUpTo(BouncerArgs, MaxArgc) \ {<<>>}
\* crossfs hands out the xattrs with a trailing NUL byte
XattrVals(s) == {EnvUnset, EnvSet(s), EnvSet(s \o <<NulByte>>)}
BouncerXattrs ==
    {[stratum |-> st, localpath |-> lp, restrict |-> re] :
        st \in XattrVals(StratS), lp \in XattrVals(UsrDir \o <<"/">> \o StratLs),
        re \in XattrVals(RESTRICT_OPT)}
NoXattrs == [stratum |-> EnvUnset, localpath |-> EnvUnset, restrict |-> EnvUnset]

BouncerInit ==
    /\ cfgs = <<>>
    /\ cfg_size = 0
    /\ root_fds = [fd \in FdPool |-> Closed]
    /\ files = NoFiles
    /\ x_last = Last("none", "other", 0, 0, FALSE, FALSE)
    /\ globals = <<>>
    /\ overrides = <<>>
    /\ e_size = 0
    /\ e_files = <<>>
    /\ creds = <<>>
    /\ e_now = StartTime
    /\ \E argv \in BouncerArgvs :
        e_last = [pc |-> "main", argv |-> argv, x |-> NoXattrs,
                  r |-> bouncer_main(argv, NoXattrs, FALSE)]

BouncerMain(x, fail) ==
    /\ e_last.pc = "main"
    /\ e_last' = [e_last EXCEPT !.pc = "done", !.x = x,
                     !.r = bouncer_main(e_last.argv, x, fail)]
    /\ UNCHANGED <<cross_vars, globals, overrides, e_size, e_files, creds, e_now>>

BouncerNext == \E x \in BouncerXattrs, fail \in BOOLEAN : BouncerMain(x, fail)

SpecBouncer == BouncerInit /\ [][BouncerNext]_vars

\* the arguments a NULL-terminated array hands to execv
RECURSIVE ArgvOf(_, _)
ArgvOf(a, i) ==
    IF i \notin DOMAIN a \/ ~a[i].set \/ a[i].p = <<>> THEN <<>>
    ELSE <<a[i].p[1]>> \o ArgvOf(a, i + 1)
Terminated(a) ==
    \E n \in DOMAIN a : a[n] = NullSlot /\ \A i \in 0..(n - 1) : a[i].set /\ a[i].p # <<>>

\* C26: for every argv of at least one element bouncer calls execv on
\* /bedrock/bin/strat with the arguments strat, --arg0, argv[0], --restrict
\* iff the restrict xattr can be read, the stratum, the local path, and
\* argv[1] onwards, NULL-terminated; when the stratum or the localpath xattr
\* cannot be read it ends without calling execv.
C26_BouncerArgv ==
    e_last.pc = "done" =>
        LET x == e_last.x
            r == e_last.r
            argv == e_last.argv
        IN  IF ~x.stratum.set \/ ~x.localpath.set
            THEN r.execv = <<>> /\ ~r.exec /\ r.status > 0
            ELSE /\ r.execv = <<BOUNCER_STRAT>>
                 /\ Terminated(r.new_argv)
                 /\ ArgvOf(r.new_argv, 0) =
                        <<BOUNCER_STRAT, ARG0_OPT, argv[1]>>
                            \o (IF x.restrict.set THEN <<RESTRICT_OPT>> ELSE <<>>)
                            \o <<StratS, UsrDir \o <<"/">> \o StratLs>>
                            \o Tail(argv)

C26_Witness ==
    /\ e_last.pc = "done"
    /\ e_last.r.exec
    /\ e_last.x.restrict.set
    /\ Len(e_last.argv) = MaxArgc

(***************************************************************************)
(* crossfs: classification of the paths of a request, checked in every     *)
(* configuration SpecCross reaches                                         *)
(***************************************************************************)
ClassIpaths ==
    {<<"/">>, <<"/", "a">>, <<"/", "a", "/", "b">>, <<"/", "a", "/", "b", "/", "c">>,
     <<"/", "a", "b">>, <<"/", "x">>, CFG_PATH, LOCAL_ALIAS_PATH}

\* a is a parent of b: a is shorter, b goes on with a / where a ends, and b
\* begins with a
IsParentPath(a, b) ==
    Len(a) < Len(b) /\ b[Len(a) + 1] = "/" /\ \A i \in 1..Len(a) : a[i] = b[i]
IsEqualOrParentPath(a, b) == a = b \/ IsParentPath(a, b)
Serving(ipath) == {i \in 1..Len(cfgs) : IsEqualOrParentPath(cfgs[i].cpath, ipath)}

\* C27: for a CLASS_BACK ipath classify_ipath selects the cfg_entry with the
\* longest cpath among those equal to or a parent of the ipath, in whatever
\* order the cpaths were added.
C27_LongestCpathServes ==
    \A ipath \in ClassIpaths :
        LET r == classify_ipath(cfgs, ipath)
        IN  r.class = CLASS_BACK =>
                /\ r.cfg \in Serving(ipath)
                /\ \A i \in Serving(ipath) : Len(cfgs[i].cpath) <= Len(cfgs[r.cfg].cpath)

RECURSIVE ClearCloses(_, _, _)
ClearCloses(c, i, j) ==
    IF i > Len(c) THEN <<>>
    ELSE IF j > Len(c[i].back) THEN ClearCloses(c, i + 1, 1)
    ELSE (IF ~c[i].back[j].local THEN <<c[i].back[j].root_fd>> ELSE <<>>)
            \o ClearCloses(c, i, j + 1)

BackSlots ==
    {<<i, j>> \in (1..Len(cfgs)) \X (1..MaxBack + 1) : j <= Len(cfgs[i].back)}
BackAt(p) == cfgs[p[1]].back[p[2]]

\* every back_entry of a stratum holds the open root fd of that stratum, two
\* of the same stratum hold the same one, a local back_entry holds none, and
\* no root fd is open that no back_entry holds
RootFdsShared ==
    /\ \A p \in BackSlots :
          IF BackAt(p).local THEN BackAt(p).root_fd = -1
          ELSE /\ BackAt(p).root_fd \in FdPool
               /\ root_fds[BackAt(p).root_fd] = BackAt(p).name
    /\ \A p, q \in BackSlots :
          BackAt(p).name = BackAt(q).name => BackAt(p).root_fd = BackAt(q).root_fd
    /\ \A fd \in FdPool :
          root_fds[fd] # Closed =>
              \E p \in BackSlots : ~BackAt(p).local /\ BackAt(p).root_fd = fd

\* C29: across add, rm and clear a stratum root fd is opened when the first
\* back_entry of the stratum that is not local is added, is shared by the
\* back_entries of that stratum, and is closed once, when the last of them
\* is removed by rm or by clear, never a second time; local back_entries
\* open and close nothing.
C29_RootFdClosedOnce ==
    /\ RootFdsShared
    /\ LET closes == ClearCloses(cfgs, 1, 1)
       IN  \A k, l \in 1..Len(closes) : closes[k] = closes[l] => k = l

(***************************************************************************)
(* SpecLock: the threads of crossfs and cfg_lock.  e_last.th is, for every *)
(* thread, where it is in its handler, the read locks and the write lock   *)
(* it holds on cfg_lock, and the local_stratum.root_fd descriptors it has  *)
(* open.                                                                   *)
(***************************************************************************)
MaxThreads == 2
MaxCalls == 3

LockThreads == 1..MaxThreads
Handlers ==
    {"m_getattr", "m_readlink", "m_readdir", "m_open", "m_read", "m_write", "m_getxattr"}
\* the argument of FS_IMP_SETUP in each handler
LockType(op) == IF op \in {"m_write", "m_getxattr"} THEN "CFG_WRLOCK" ELSE "CFG_RDLOCK"
IdleThread == [pc |-> "idle", op |-> "none", rd |-> 0, wr |-> FALSE, fds |-> 0, rv |-> 0]

\* FS_IMP_RETURN(rv): unlock, close, return
FsImpReturn(t, rv) ==
    [t EXCEPT !.pc = "idle", !.rv = rv, !.fds = t.fds - 1,
              !.rd = IF t.wr THEN t.rd ELSE t.rd - 1, !.wr = FALSE]

\* m_readlink after FS_IMP_SETUP; lname is local_stratum.name
lock_m_readlink(t, c, ipath, size, lname) ==
    LET class == classify_ipath(c, ipath).class
    IN  IF class \in {CLASS_BACK, CLASS_VDIR, CLASS_ROOT, CLASS_CFG}
        THEN FsImpReturn(t, -EINVAL)
        ELSE IF class = CLASS_LOCAL
             THEN IF Len(STRATA_ROOT) + Len(lname) >= size
                  THEN [t EXCEPT !.pc = "idle", !.rv = -ENAMETOOLONG]
                  ELSE FsImpReturn(t, 0)
        ELSE FsImpReturn(t, -ENOENT)

LockInit ==
    /\ cfgs = <<>>
    /\ cfg_size = 0
    /\ root_fds = [fd \in FdPool |-> Closed]
    /\ files = NoFiles
    /\ x_last = Last("none", "other", 0, 0, FALSE, FALSE)
    /\ globals = <<>>
    /\ overrides = <<>>
    /\ e_size = 0
    /\ e_files = <<>>
    /\ creds = <<>>
    /\ e_now = StartTime
    /\ e_last = [th |-> [t \in LockThreads |-> IdleThread], calls |-> 0]

\* FS_IMP_SETUP up to the lock: set_local_stratum opens local_stratum.root_fd
\* or fails with lsr
LockSetup(t, op, lsr) ==
    /\ e_last.th[t].pc = "idle"
    /\ e_last.calls < MaxCalls
    /\ e_last' = [e_last EXCEPT !.calls = @ + 1,
                     !.th[t] = IF lsr < 0 THEN [@ EXCEPT !.op = op, !.rv = lsr]
                               ELSE [@ EXCEPT !.pc = "setup", !.op = op, !.fds = @ + 1]]
    /\ UNCHANGED <<cross_vars, globals, overrides, e_size, e_files, creds, e_now>>

\* pthread_rwlock_rdlock / pthread_rwlock_wrlock returns
LockAcquire(t) ==
    /\ e_last.th[t].pc = "setup"
    /\ IF LockType(e_last.th[t].op) = "CFG_RDLOCK"
       THEN /\ \A u \in LockThreads : ~e_last.th[u].wr
            /\ e_last' = [e_last EXCEPT !.th[t].pc = "locked", !.th[t].rd = @ + 1]
       ELSE /\ \A u \in LockThreads : ~e_last.th[u].wr /\ e_last.th[u].rd = 0
            /\ e_last' = [e_last EXCEPT !.th[t].pc = "locked", !.th[t].wr = TRUE]
    /\ UNCHANGED <<cross_vars, globals, overrides, e_size, e_files, creds, e_now>>

\* m_readlink from the lock to its return
LockReadlink(t, ipath, size) ==
    /\ e_last.th[t].pc = "locked"
    /\ e_last.th[t].op = "m_readlink"
    /\ e_last' = [e_last EXCEPT
                     !.th[t] = lock_m_readlink(@, cfgs, ipath, size, Root.lname)]
    /\ UNCHANGED <<cross_vars, globals, overrides, e_size, e_files, creds, e_now>>

\* m_write from the lock to its return
LockWrite(t, ipath, buf) ==
    /\ e_last.th[t].pc = "locked"
    /\ e_last.th[t].op = "m_write"
    /\ \E r \in {m_write(St, Root, ipath, buf, "none")} :
        /\ WithinBounds(r.st)
        /\ cfgs' = r.st.cfgs
        /\ cfg_size' = r.st.size
        /\ root_fds' = r.st.fds
        /\ e_last' = [e_last EXCEPT !.th[t] = FsImpReturn(@, r.rv)]
    /\ UNCHANGED <<files, x_last, globals, overrides, e_size, e_files, creds, e_now>>

\* the other handlers from the lock to their return: every path through them
\* ends in FS_IMP_RETURN
LockOther(t, rv) ==
    /\ e_last.th[t].pc = "locked"
    /\ e_last.th[t].op \notin {"m_readlink", "m_write"}
    /\ e_last' = [e_last EXCEPT !.th[t] = FsImpReturn(@, rv)]
    /\ UNCHANGED <<cross_vars, globals, overrides, e_size, e_files, creds, e_now>>

LockIpaths == {LOCAL_ALIAS_PATH, CFG_PATH, <<"/", "a">>}
LockSizes == {Len(STRATA_ROOT) + 1, PATH_MAX + 1}
LockBufs == {AddCmd(filter_str[FILTER_PASS], <<"/", "a">>, <<"s">>, <<"/", "x">>), ClearCmd}

LockNext ==
    \E t \in LockThreads :
        \/ \E op \in Handlers, lsr \in LocalResults : LockSetup(t, op, lsr)
        \/ LockAcquire(t)
        \/ \E ipath \in LockIpaths, size \in LockSizes : LockReadlink(t, ipath, size)
        \/ \E ipath \in LockIpaths, buf \in LockBufs : LockWrite(t, ipath, buf)
        \/ \E rv \in {0, -ENOENT} : LockOther(t, rv)

SpecLock == LockInit /\ [][LockNext]_vars

\* C30: every handler releases cfg_lock and closes its local stratum root fd
\* on every return path: a thread that is in no handler holds no lock and no
\* such descriptor, so that a write that asks for the lock while no handler
\* is running can take it.
C30_LockReleasedOnReturn ==
    /\ \A t \in LockThreads :
          e_last.th[t].pc = "idle" =>
              e_last.th[t].rd = 0 /\ ~e_last.th[t].wr /\ e_last.th[t].fds = 0
    /\ \A t \in LockThreads :
          (/\ e_last.th[t].pc = "setup"
           /\ \A u \in LockThreads \ {t} : e_last.th[u].pc = "idle") =>
              ENABLED LockAcquire(t)

(***************************************************************************)
(* SpecOrder: add and rm commands of crossfs with up to MaxOrder back      *)
(* entries; e_last keeps, next to the configuration, the back entries in   *)
(* the order they were added and the cpaths in the order their cfg_entry   *)
(* was made.                                                               *)
(***************************************************************************)
MaxOrder == 3

OrderEntries ==
    {<<c, st, <<"/", "x">>>> : c \in CPaths, st \in {<<"s">>, <<"t">>, <<"u">>}}
OrderAddCmd(e) == AddCmd(filter_str[FILTER_PASS], e[1], e[2], e[3])
OrderRmCmd(e) == RmCmd(filter_str[FILTER_PASS], e[1], e[2], e[3])
InSeq(q, x) == \E i \in 1..Len(q) : q[i] = x
Without(q, x) == SelectSeq(q, LAMBDA y : y # x)

OrderInit ==
    /\ cfgs = <<>>
    /\ cfg_size = 0
    /\ root_fds = [fd \in FdPool |-> Closed]
    /\ files = NoFiles
    /\ x_last = Last("none", "other", 0, 0, FALSE, FALSE)
    /\ globals = <<>>
    /\ overrides = <<>>
    /\ e_size = 0
    /\ e_files = <<>>
    /\ creds = <<>>
    /\ e_now = StartTime
    /\ e_last = [added |-> <<>>, cpaths |-> <<>>]

OrderAdd(e) ==
    /\ Len(e_last.added) < MaxOrder \/ InSeq(e_last.added, e)
    /\ \E r \in {m_write(St, Root, CFG_PATH, OrderAddCmd(e), "none")} :
        /\ r.rv > 0
        /\ cfgs' = r.st.cfgs
        /\ cfg_size' = r.st.size
        /\ root_fds' = r.st.fds
    /\ e_last' =
          [added |-> IF InSeq(e_last.added, e) THEN e_last.added
                     ELSE Append(e_last.added, e),
           cpaths |-> IF InSeq(e_last.cpaths, e[1]) THEN e_last.cpaths
                      ELSE Append(e_last.cpaths, e[1])]
    /\ UNCHANGED <<files, x_last, globals, overrides, e_size, e_files, creds, e_now>>

OrderRm(e) ==
    /\ \E r \in {m_write(St, Root, CFG_PATH, OrderRmCmd(e), "none")} :
        /\ r.rv > 0
        /\ cfgs' = r.st.cfgs
        /\ cfg_size' = r.st.size
        /\ root_fds' = r.st.fds
    /\ LET left == Without(e_last.added, e)
       IN  e_last' =
              [added |-> left,
               cpaths |-> IF \E i \in 1..Len(left) : left[i][1] = e[1] THEN e_last.cpaths
                          ELSE Without(e_last.cpaths, e[1])]
    /\ UNCHANGED <<files, x_last, globals, overrides, e_size, e_files, creds, e_now>>

OrderNext == \E e \in OrderEntries : OrderAdd(e) \/ OrderRm(e)

SpecOrder == OrderInit /\ [][OrderNext]_vars

\* C38: after any sequence of add and rm the back entries of every cfg_entry
\* are in the order in which the surviving ones were added, and the
\* cfg_entries are in the order in which the surviving ones were made: an rm
\* changes the relative order of nothing that remains.
C38_RmKeepsOrder ==
    /\ [i \in 1..Len(cfgs) |-> cfgs[i].cpath] = e_last.cpaths
    /\ \A i \in 1..Len(cfgs) :
          [j \in 1..Len(cfgs[i].back) |->
              <<cfgs[i].cpath, cfgs[i].back[j].name, cfgs[i].back[j].lpath>>]
            = SelectSeq(e_last.added, LAMBDA e : e[1] = cfgs[i].cpath)

(***************************************************************************)
(* SpecSecure: check_config_secure on a path of MaxDepth components, with  *)
(* every component absent, a symlink, not root's, writable by group or     *)
(* others, or secure.                                                      *)
(***************************************************************************)
MaxDepth == 3

RECURSIVE DeepPath(_)
DeepPath(n) == IF n = 0 THEN <<>> ELSE DeepPath(n - 1) \o <<"/", "d">>
SecureAttrs(kind) ==
    [type |-> IF kind = "symlink" THEN "lnk" ELSE "dir",
     uid |-> IF kind = "nonroot" THEN 1000 ELSE 0,
     loose |-> kind = "loose"]
\* nothing is below a component that is absent
DeepKinds ==
    {k \in [1..MaxDepth -> SecureKinds] :
        \A i, j \in 1..MaxDepth : i < j /\ k[i] = "absent" => k[j] = "absent"}
DeepFs(k) ==
    [q \in {DeepPath(i) : i \in {n \in 1..MaxDepth : k[n] # "absent"}} |->
        SecureAttrs(k[Len(q) \div 2])]

SecureInit ==
    /\ cfgs = <<>>
    /\ cfg_size = 0
    /\ root_fds = [fd \in FdPool |-> Closed]
    /\ files = NoFiles
    /\ x_last = Last("none", "other", 0, 0, FALSE, FALSE)
    /\ globals = <<>>
    /\ overrides = <<>>
    /\ e_size = 0
    /\ e_files = <<>>
    /\ creds = <<>>
    /\ e_now = StartTime
    /\ \E k \in DeepKinds, n \in 1..MaxDepth :
        e_last = [pc |-> "call", path |-> DeepPath(n), fs |-> DeepFs(k), errno |-> 0]

SecureCheck ==
    /\ e_last.pc = "call"
    /\ e_last' = [e_last EXCEPT !.pc = "done",
                     !.errno = check_config_secure(e_last.path, e_last.fs)]
    /\ UNCHANGED <<cross_vars, globals, overrides, e_size, e_files, creds, e_now>>

SecureNext == SecureCheck

SpecSecure == SecureInit /\ [][SecureNext]_vars

\* the path and its prefixes that end where a component ends
ComponentPrefixes(path) ==
    {SubSeq(path, 1, n) : n \in {m \in 1..Len(path) : m = Len(path) \/ path[m + 1] = "/"}}
SecureFault(fs, q) ==
    IF q \notin DOMAIN fs THEN ENOENT
    ELSE IF fs[q].type = "lnk" THEN EMLINK
    ELSE IF fs[q].uid # 0 \/ fs[q].loose THEN EACCES
    ELSE 0

MaxBytes == 2     \* bytes of the longest file below etcfs

UnContents == UNION {[1..l -> InjBytes] : l \in 1..MaxBytes}
UnRefs == {LocalRef, GlobalRef}
UnFiles(local, global, src) ==
    [k \in {<<LocalRef, Tail(PathF)>>, <<GlobalRef, Tail(PathF)>>, <<ProcRoot, PathX>>} |->
        InjFile(IF k[1] = LocalRef THEN local ELSE IF k[1] = GlobalRef THEN global ELSE src)]
UnEnv == Env(e_now, "none", <<>>, "none")
UnRoot == Caller(0, 0, <<>>, TRUE)
\* the reference directories in which /f changed
UnChanged(before, after) ==
    {ref \in UnRefs : EtcLookup(before, ref, Tail(PathF)) # EtcLookup(after, ref, Tail(PathF))}

UnInit ==
    /\ cfgs = <<>>
    /\ cfg_size = 0
    /\ root_fds = [fd \in FdPool |-> Closed]
    /\ files = NoFiles
    /\ x_last = Last("none", "other", 0, 0, FALSE, FALSE)
    /\ globals = <<>>
    /\ overrides = <<>>
    /\ e_size = 0
    /\ \E local \in UnContents, global \in UnContents, src \in UnContents :
        e_files = UnFiles(local, global, src)
    /\ creds = [euid |-> 0, egid |-> 0, groups |-> <<>>]
    /\ e_now = StartTime
    /\ e_last = [op |-> "none", injected |-> {}, removed |-> {}]

\* where the bytes of the override are that enforcement injected and that
\* no rm_override or add_override has dealt with yet
UnPending == IF e_last.op \in {"rm", "readd"} THEN {} ELSE e_last.injected

UnServe(r, last) ==
    /\ r.rv >= 0
    /\ globals' = r.st.globals
    /\ overrides' = r.st.overrides
    /\ e_size' = r.st.size
    /\ e_files' = r.st.files
    /\ creds' = r.cr
    /\ e_last' = last
    /\ UNCHANGED <<e_now, cross_vars>>

\* root writes add_global /f or rm_global /f to the config file
UnGlobal(buf) ==
    \E r \in {etc_m_write(ESt, creds, UnRoot, ETC_CFG_PATH, buf, 0, UnEnv)} :
        /\ r.st.globals # globals
        /\ UnServe(r, [op |-> "global", injected |-> UnPending, removed |-> {}])

\* root writes add_override inject /f /x: a new override, or, when there
\* is one, the removal of what was injected
UnAddOverride ==
    \E r \in {etc_m_write(ESt, creds, UnRoot, ETC_CFG_PATH,
                          AddOverrideCmd(TYPE_INJECT, PathF, PathX), 0, UnEnv)} :
        UnServe(r, IF overrides = <<>>
                   THEN [op |-> "add", injected |-> {}, removed |-> {}]
                   ELSE [op |-> "readd", injected |-> UnPending,
                         removed |-> UnChanged(e_files, r.st.files)])

\* root writes rm_override /f
UnRmOverride ==
    /\ overrides # <<>>
    /\ \E r \in {etc_m_write(ESt, creds, UnRoot, ETC_CFG_PATH, RmOverrideCmd(PathF), 0, UnEnv)} :
        UnServe(r, [op |-> "rm", injected |-> UnPending,
                    removed |-> UnChanged(e_files, r.st.files)])

\* lstat of /f through etcfs, which enforces the override
UnGetattr ==
    \E r \in {etc_m_getattr(ESt, creds, UnRoot, PathF, UnEnv)} :
        UnServe(r, [op |-> "getattr", injected |-> UnPending \cup UnChanged(e_files, r.st.files),
                    removed |-> {}])

UnNext ==
    \/ \E buf \in {AddGlobalCmd(PathF), RmGlobalCmd(PathF)} : UnGlobal(buf)
    \/ UnAddOverride
    \/ UnRmOverride
    \/ UnGetattr

SpecUninject == UnInit /\ [][UnNext]_vars

\* C40: the file from which rm_override, or a second add_override of an
\* inject override, removes the injected bytes is the file into which the
\* enforcement of the override injected them, also when the path is a
\* global and the request was routed to the global reference directory.
C40_RemovesWhereInjected ==
    e_last.op \in {"rm", "readd"} /\ e_last.injected # {} =>
        e_last.removed = e_last.injected

\* rm_override after an injection into the local reference directory
UnLocalRemoves ==
    e_last.op \in {"rm", "readd"} /\ e_last.injected = {LocalRef} /\ globals = <<>> =>
        e_last.removed = {LocalRef}

(***************************************************************************)
(* SpecRace: requests served by the threads of etcfs, step by step.        *)
(* FS_IMP_SETUP calls get_ref_fd and apply_override before it takes        *)
(* cfg_lock; a write to the config file gives up the read lock and takes   *)
(* the write lock for the command.                                         *)
(***************************************************************************)
MaxRace == 2      \* requests served in one run

RaceThreads == 1..MaxThreads
FREED == <<"freed">>
PathY == <<"/", "y">>
RaceOverride(path, content) ==
    [path |-> path, type |-> TYPE_SYMLINK, content |-> content, inject |-> NULL,
     last_override |-> 0]
RaceGlobals == {<<>>, <<PathA, PathB>>}
RaceOverrides == {<<>>, <<RaceOverride(PathA, PathX), RaceOverride(PathB, PathY)>>}
RaceFiles ==
    [k \in {<<ref, Tail(path)>> : ref \in {LocalRef, GlobalRef}, path \in {PathA, PathB}} |->
        InjFile(<<"c">>)]
RaceBufs ==
    {RmGlobalCmd(PathA), AddGlobalCmd(PathA), RmOverrideCmd(PathA),
     AddOverrideCmd(TYPE_SYMLINK, PathA, PathX)}
RaceReqs ==
    {[op |-> "getattr", path |-> path, buf |-> <<>>] : path \in {PathA, PathB}}
        \cup {[op |-> "write", path |-> ETC_CFG_PATH, buf |-> buf] : buf \in RaceBufs}
RaceEnv == Env(e_now, "none", <<>>, "none")
RaceIdle ==
    [pc |-> "idle", req |-> [op |-> "none", path |-> <<>>, buf |-> <<>>], ref |-> LocalRef,
     i |-> 0, used |-> <<>>, unlocked |-> FALSE, torn |-> FALSE]
NoMutation == [on |-> FALSE, pre |-> <<>>, post |-> <<>>]

\* free(globals[i]); global_cnt--: what the array shows until globals[i] is
\* overwritten with the last entry (likewise overrides[])
HalfRemoved(seq, i, freed) ==
    LET n == Len(seq)
    IN  IF i = 0 THEN seq
        ELSE IF i = n THEN SubSeq(seq, 1, n - 1)
        ELSE SubSeq([seq EXCEPT ![i] = freed], 1, n - 1)
FreedOverride == RaceOverride(FREED, FREED)

\* get_ref_fd: strcmp with a string that was freed gives either result
RouteOutcomes(gl, path) ==
    {get_ref_fd(gl, path)}
        \cup {GlobalRef : i \in {j \in 1..Len(gl) : gl[j] = FREED}}
\* the loop of apply_override: the index found, 0 for override_cnt
FindOutcomes(ov, path) ==
    {OverrideIndex(ov, path)}
        \cup {i \in 1..Len(ov) : ov[i].path = FREED /\ \A j \in 1..(i - 1) : ov[j].path # path}

RaceInit ==
    /\ cfgs = <<>>
    /\ cfg_size = 0
    /\ root_fds = [fd \in FdPool |-> Closed]
    /\ files = NoFiles
    /\ x_last = Last("none", "other", 0, 0, FALSE, FALSE)
    /\ globals \in RaceGlobals
    /\ overrides \in RaceOverrides
    /\ e_size = Len(EtcGlobalLines(globals)) + Len(EtcOverrideLines(overrides))
    /\ e_files = RaceFiles
    /\ creds = [euid |-> 0, egid |-> 0, groups |-> <<>>]
    /\ e_now = StartTime
    /\ e_last = [th |-> [t \in RaceThreads |-> RaceIdle], readers |-> {}, writer |-> 0,
                 mut |-> NoMutation, calls |-> 0]

RaceHolds(t) == t \in e_last.readers \/ e_last.writer = t
RaceSet(t, rec) == [e_last EXCEPT !.th[t] = rec]
RaceCfgSame == UNCHANGED <<cross_vars, globals, overrides, e_size, e_files, creds, e_now>>

\* a request arrives at a thread
RaceBegin(t, req) ==
    /\ e_last.th[t].pc = "idle"
    /\ e_last.calls < MaxRace
    /\ e_last' = [e_last EXCEPT !.th[t] = [RaceIdle EXCEPT !.pc = "route", !.req = req],
                                !.calls = @ + 1]
    /\ RaceCfgSame

\* FS_IMP_SETUP: int ref_fd = get_ref_fd(path)
RaceRoute(t) ==
    /\ e_last.th[t].pc = "route"
    /\ \E ref \in RouteOutcomes(globals, e_last.th[t].req.path) :
        LET m == e_last.mut
            whole == IF m.on
                     THEN {get_ref_fd(m.pre.globals, e_last.th[t].req.path),
                           get_ref_fd(m.post.globals, e_last.th[t].req.path)}
                     ELSE {get_ref_fd(globals, e_last.th[t].req.path)}
        IN  e_last' = RaceSet(t, [e_last.th[t] EXCEPT !.pc = "find", !.ref = ref,
                                     !.unlocked = @ \/ ~RaceHolds(t),
                                     !.torn = @ \/ ref \notin whole])
    /\ RaceCfgSame

\* apply_override: the loop that finds the override
RaceFind(t) ==
    /\ e_last.th[t].pc = "find"
    /\ \E i \in FindOutcomes(overrides, e_last.th[t].req.path) :
        e_last' = RaceSet(t, [e_last.th[t] EXCEPT !.pc = IF i = 0 THEN "rdlock" ELSE "wrlock",
                                 !.i = i, !.unlocked = @ \/ ~RaceHolds(t)])
    /\ RaceCfgSame

\* apply_override: pthread_rwlock_wrlock, the switch on overrides[i].type,
\* pthread_rwlock_unlock
RaceApply(t) ==
    /\ e_last.th[t].pc = "wrlock"
    /\ e_last.readers = {} /\ e_last.writer = 0
    /\ LET th == e_last.th[t]
           gone == th.i > Len(overrides)
           used == IF gone THEN FREED ELSE overrides[th.i].path
           a == IF gone THEN [rv |-> 0, st |-> ESt]
                ELSE apply_override(ESt, th.ref, used, RPath(th.req.path), e_now, creds)
       IN  /\ e_last' = RaceSet(t, [th EXCEPT !.pc = "rdlock", !.used = used])
           /\ overrides' = a.st.overrides
           /\ e_files' = a.st.files
    /\ UNCHANGED <<cross_vars, globals, e_size, creds, e_now>>

\* FS_IMP_SETUP: pthread_rwlock_rdlock
RaceRdlock(t) ==
    /\ e_last.th[t].pc = "rdlock"
    /\ e_last.writer = 0
    /\ e_last' = [e_last EXCEPT !.th[t].pc = "body", !.readers = @ \cup {t}]
    /\ RaceCfgSame

\* the body of m_getattr and FS_IMP_RETURN; for m_write on the config file
\* pthread_rwlock_unlock before the write lock is taken
RaceBody(t) ==
    /\ e_last.th[t].pc = "body"
    /\ e_last' = [e_last EXCEPT
                     !.th[t].pc = IF e_last.th[t].req.op = "write" THEN "upgrade" ELSE "idle",
                     !.readers = @ \ {t}]
    /\ RaceCfgSame

\* m_write: pthread_rwlock_wrlock and the command, up to the point where
\* the entry is freed and the count decremented
RaceUpgrade(t) ==
    /\ e_last.th[t].pc = "upgrade"
    /\ e_last.readers = {} /\ e_last.writer = 0
    /\ \E r \in {EtcCommand(ESt, e_last.th[t].req.buf, creds, RaceEnv)} :
        LET gi == IF Len(r.st.globals) < Len(globals)
                  THEN GlobalIndex(globals, SubSeq(e_last.th[t].req.buf, 11,
                                                   Len(e_last.th[t].req.buf) - 1))
                  ELSE 0
            oi == IF Len(r.st.overrides) < Len(overrides)
                  THEN OverrideIndex(overrides, SubSeq(e_last.th[t].req.buf, 13,
                                                       Len(e_last.th[t].req.buf) - 1))
                  ELSE 0
        IN  /\ e_last' = [e_last EXCEPT !.th[t].pc = "mutate", !.writer = t,
                                        !.mut = [on |-> TRUE, pre |-> ESt, post |-> r.st]]
            /\ globals' = HalfRemoved(globals, gi, FREED)
            /\ overrides' = HalfRemoved(overrides, oi, FreedOverride)
    /\ UNCHANGED <<cross_vars, e_size, e_files, creds, e_now>>

\* m_write: the rest of the command, pthread_rwlock_unlock
RaceFinish(t) ==
    /\ e_last.th[t].pc = "mutate"
    /\ e_last' = [e_last EXCEPT !.th[t].pc = "relock", !.writer = 0, !.mut = NoMutation]
    /\ globals' = e_last.mut.post.globals
    /\ overrides' = e_last.mut.post.overrides
    /\ e_size' = e_last.mut.post.size
    /\ e_files' = e_last.mut.post.files
    /\ UNCHANGED <<cross_vars, creds, e_now>>

\* m_write: pthread_rwlock_rdlock and FS_IMP_RETURN
RaceRelock(t) ==
    /\ e_last.th[t].pc = "relock"
    /\ e_last.writer = 0
    /\ e_last' = [e_last EXCEPT !.th[t].pc = "idle"]
    /\ RaceCfgSame

RaceNext ==
    \E t \in RaceThreads :
        \/ \E req \in RaceReqs : RaceBegin(t, req)
        \/ RaceRoute(t)
        \/ RaceFind(t)
        \/ RaceApply(t)
        \/ RaceRdlock(t)
        \/ RaceBody(t)
        \/ RaceUpgrade(t)
        \/ RaceFinish(t)
        \/ RaceRelock(t)

SpecRace == RaceInit /\ [][RaceNext]_vars

\* C31: a handler reads globals[] and overrides[], in get_ref_fd and in the
\* lookup of apply_override, only while it holds cfg_lock, so that what it
\* observes is the whole configuration before or after a config write.
C31_ReadsUnderCfgLock ==
    \A t \in RaceThreads : ~e_last.th[t].unlocked /\ ~e_last.th[t].torn

\* a request is routed by a configuration that is neither the one before nor
\* the one after the config write in progress
RaceTornRoute == \A t \in RaceThreads : ~e_last.th[t].torn

\* C35: the override apply_override enforces under the write lock is one
\* whose path is the path of the request in the configuration at that
\* moment: no override of another path is applied and no removed entry is
\* read, whatever rm_override or add_override did since the lookup.
C35_EnforcesOwnOverride ==
    \A t \in RaceThreads : e_last.th[t].used \in {<<>>, e_last.th[t].req.path}

\* an entry beyond override_cnt is read
RaceReadsRemoved == \A t \in RaceThreads : e_last.th[t].used # FREED

(***************************************************************************)
(* SpecSubstrate: the fchroot_* wrappers of crossfs under both substrates, *)
(* on what the kernel finds at the bpath of each back entry.               *)
(***************************************************************************)
Found(type) == [errno |-> 0, type |-> type]
Failed(errno) == [errno |-> errno, type |-> "none"]
\* what is at a bpath under a root: nofollow the last component itself,
\* follow what it resolves to, magic whether the path goes through a magic
\* link of procfs
KernelFinds ==
    {[nofollow |-> r, follow |-> r, magic |-> m] :
        r \in {Found("reg"), Found("dir"), Failed(ENOENT), Failed(EACCES), Failed(ELOOP)},
        m \in BOOLEAN}
    \cup {[nofollow |-> Found("lnk"), follow |-> r, magic |-> FALSE] :
        r \in {Found("reg"), Found("dir"), Failed(ENOENT), Failed(ELOOP)}}
SysRet(r, ok) == IF r.errno = 0 THEN [rv |-> ok, errno |-> 0] ELSE [rv |-> -1, errno |-> r.errno]

\* openat2(dirfd, pathname, {flags, RESOLVE_IN_ROOT}); 3 stands for the fd
openat2_fchroot_open(k, nofollow) ==
    IF k.magic THEN [rv |-> -1, errno |-> EXDEV]
    ELSE SysRet(IF nofollow THEN k.nofollow ELSE k.follow, 3)

SubOpen(openat2_available, k) ==
    IF openat2_available THEN openat2_fchroot_open(k, FALSE)
    ELSE SysRet(k.follow, 3)

SubStat(openat2_available, k) ==
    IF openat2_available
    THEN LET fd == openat2_fchroot_open(k, FALSE)
         IN  IF fd.rv < 0 THEN fd ELSE [rv |-> 0, errno |-> 0]
    ELSE SysRet(k.follow, 0)

SubFileExists(openat2_available, k) ==
    IF openat2_available
    THEN LET fd == openat2_fchroot_open(k, FALSE)
         IN  [rv |-> IF fd.rv >= 0 \/ fd.errno # ENOENT THEN 1 ELSE 0, errno |-> fd.errno]
    ELSE LET r == SysRet(k.follow, 0)
         IN  [rv |-> IF r.rv >= 0 THEN 1 ELSE 0, errno |-> r.errno]

\* readlink of a link of one byte
SubReadlink(openat2_available, k) ==
    IF openat2_available
    THEN LET fd == openat2_fchroot_open(k, TRUE)
         IN  IF fd.rv < 0 THEN fd
             ELSE IF k.nofollow.type = "lnk" THEN [rv |-> 1, errno |-> 0]
             ELSE [rv |-> -1, errno |-> EINVAL]
    ELSE IF k.nofollow.errno # 0 THEN SysRet(k.nofollow, 0)
         ELSE IF k.nofollow.type = "lnk" THEN [rv |-> 1, errno |-> 0]
         ELSE [rv |-> -1, errno |-> EINVAL]

\* rv 1 for a FILE, 0 for NULL
SubFopen(openat2_available, k) ==
    IF openat2_available
    THEN LET fd == openat2_fchroot_open(k, FALSE)
         IN  IF fd.rv < 0 THEN [rv |-> 0, errno |-> fd.errno] ELSE [rv |-> 1, errno |-> 0]
    ELSE IF k.follow.errno # 0 THEN [rv |-> 0, errno |-> k.follow.errno]
         ELSE [rv |-> 1, errno |-> 0]

SubWrappers == {"open", "stat", "file_exists", "readlink", "fopen"}
SubCallOf(op, a, k) ==
    CASE op = "open" -> SubOpen(a, k)
      [] op = "stat" -> SubStat(a, k)
      [] op = "file_exists" -> SubFileExists(a, k)
      [] op = "readlink" -> SubReadlink(a, k)
      [] OTHER -> SubFopen(a, k)

\* stat_first_bpath, open_first_bpath, loc_first_bpath: the back entry at
\* which the loop ends, 0 when it runs through
RECURSIVE SubFirst(_, _, _, _)
SubFirst(op, a, ks, i) ==
    IF i > Len(ks) THEN 0
    ELSE LET r == SubCallOf(op, a, ks[i])
             hit == IF op = "file_exists" THEN r.rv # 0 ELSE r.rv >= 0 \/ r.errno # ENOENT
         IN  IF hit THEN i ELSE SubFirst(op, a, ks, i + 1)

SubInit ==
    /\ cfgs = <<>>
    /\ cfg_size = 0
    /\ root_fds = [fd \in FdPool |-> Closed]
    /\ files = NoFiles
    /\ x_last = Last("none", "other", 0, 0, FALSE, FALSE)
    /\ globals = <<>>
    /\ overrides = <<>>
    /\ e_size = 0
    /\ e_files = <<>>
    /\ creds = <<>>
    /\ e_now = StartTime
    /\ \E ks \in [1..MaxBack -> KernelFinds] :
        e_last = [pc |-> "call", ks |-> ks, op |-> "none", locked |-> <<>>, openat2 |-> <<>>,
                  sel |-> <<>>]

\* one wrapper on the first back entry under either substrate
SubWrapper(op) ==
    /\ e_last.pc = "call"
    /\ e_last' = [e_last EXCEPT !.pc = "done", !.op = op,
                     !.locked = <<SubCallOf(op, FALSE, e_last.ks[1])>>,
                     !.openat2 = <<SubCallOf(op, TRUE, e_last.ks[1])>>]
    /\ UNCHANGED <<cross_vars, globals, overrides, e_size, e_files, creds, e_now>>

\* getattr (stat), open (open) and getxattr (file_exists) on an ipath with
\* these back entries under either substrate
SubSelect(op) ==
    /\ e_last.pc = "call"
    /\ e_last' = [e_last EXCEPT !.pc = "done", !.op = op,
                     !.sel = <<SubFirst(op, FALSE, e_last.ks, 1),
                               SubFirst(op, TRUE, e_last.ks, 1)>>]
    /\ UNCHANGED <<cross_vars, globals, overrides, e_size, e_files, creds, e_now>>

SubNext ==
    \/ \E op \in SubWrappers : SubWrapper(op)
    \/ \E op \in {"open", "stat", "file_exists"} : SubSelect(op)

SpecSubstrate == SubInit /\ [][SubNext]_vars

\* C39: for every root fd, path and state of the file system each wrapper
\* (open, stat, file-exists, readlink, fopen) gives the same outcome under
\* fchdir+chroot as under openat2(RESOLVE_IN_ROOT), success or failure with
\* the same error, so getattr, open and getxattr select the same back entry.
C39_SubstratesAgree ==
    e_last.pc = "done" =>
        /\ e_last.locked # <<>> =>
            /\ e_last.locked[1].rv = e_last.openat2[1].rv
            /\ e_last.locked[1].rv < 0 => e_last.locked[1].errno = e_last.openat2[1].errno
        /\ e_last.sel # <<>> => e_last.sel[1] = e_last.sel[2]

\* the same without paths through magic links
SubAgreeNoMagic ==
    e_last.pc = "done" /\ (\A i \in 1..Len(e_last.ks) : ~e_last.ks[i].magic) =>
        /\ e_last.locked # <<>> /\ e_last.op # "file_exists" =>
            /\ e_last.locked[1].rv = e_last.openat2[1].rv
            /\ e_last.locked[1].rv < 0 => e_last.locked[1].errno = e_last.openat2[1].errno
        /\ e_last.sel # <<>> /\ e_last.op # "file_exists" => e_last.sel[1] = e_last.sel[2]

\* file-exists and the back entry of getxattr without magic links
SubExistsAgree ==
    e_last.pc = "done" /\ e_last.op = "file_exists"
        /\ (\A i \in 1..Len(e_last.ks) : ~e_last.ks[i].magic) =>
        /\ e_last.locked # <<>> => e_last.locked[1].rv = e_last.openat2[1].rv
        /\ e_last.sel # <<>> => e_last.sel[1] = e_last.sel[2]

(***************************************************************************)
(* SpecChroot: the root of the crossfs process under the locked substrate. *)
(* Every request opens the root of the calling process' stratum            *)
(* (set_local_stratum) and closes it in FS_IMP_RETURN; a wrapper changes   *)
(* the root of the process unless current_root_fd is its root_fd.          *)
(***************************************************************************)
InitRoot == <<"init">>
ChrStrata == {<<"s">>, <<"t">>}
ChrThreads == 1..MaxThreads
ChrIdle == [pc |-> "idle", fd |-> 0]
NoFsCall == [kind |-> "none", meant |-> <<>>, actual |-> <<>>, locked |-> FALSE]

ChrInit ==
    /\ cfgs = <<>>
    /\ cfg_size = 0
    /\ root_fds = [fd \in FdPool |-> Closed]
    /\ files = NoFiles
    /\ x_last = Last("none", "other", 0, 0, FALSE, FALSE)
    /\ globals = <<>>
    /\ overrides = <<>>
    /\ e_size = 0
    /\ e_files = <<>>
    /\ creds = <<>>
    /\ e_now = StartTime
    /\ e_last = [th |-> [t \in ChrThreads |-> ChrIdle], proc_root |-> InitRoot,
                 current_root_fd |-> 0, calls |-> 0, last |-> NoFsCall]

ChrSame ==
    UNCHANGED <<cfgs, cfg_size, files, x_last, globals, overrides, e_size, e_files, creds, e_now>>

\* FS_IMP_SETUP: set_local_stratum opens <pid>/root of a caller whose root
\* is the one of stratum
ChrSetup(t, stratum) ==
    /\ e_last.th[t].pc = "idle"
    /\ e_last.calls < MaxCalls
    /\ LET fd == LowestFreeFd(root_fds)
       IN  /\ root_fds' = [root_fds EXCEPT ![fd] = stratum]
           /\ e_last' = [e_last EXCEPT !.th[t] = [pc |-> "body", fd |-> fd],
                                       !.calls = @ + 1, !.last = NoFsCall]
    /\ ChrSame

\* fchroot_stat and the other wrappers on a back entry of the local alias:
\* root_lock held from the test of current_root_fd to the file system call;
\* fail: fchdir or chroot fails
ChrWrapper(t, fail) ==
    /\ e_last.th[t].pc = "body"
    /\ LET root_fd == e_last.th[t].fd
           cached == e_last.current_root_fd = root_fd
           root == IF cached \/ fail THEN e_last.proc_root ELSE root_fds[root_fd]
       IN  e_last' = [e_last EXCEPT
                         !.proc_root = root,
                         !.current_root_fd = IF fail /\ ~cached THEN @ ELSE root_fd,
                         !.last = IF fail /\ ~cached THEN NoFsCall
                                  ELSE [kind |-> "wrapper", meant |-> root_fds[root_fd],
                                        actual |-> root, locked |-> TRUE]]
    /\ UNCHANGED root_fds
    /\ ChrSame

\* generate_service_for: stat(full_service_path) of the path
\* /bedrock/strata/<stratum><bpath>
ChrService(t) ==
    /\ e_last.th[t].pc = "body"
    /\ e_last' = [e_last EXCEPT !.last = [kind |-> "direct", meant |-> InitRoot,
                                          actual |-> e_last.proc_root, locked |-> FALSE]]
    /\ UNCHANGED root_fds
    /\ ChrSame

\* FS_IMP_RETURN: close(local_stratum.root_fd)
ChrReturn(t) ==
    /\ e_last.th[t].pc = "body"
    /\ root_fds' = CloseFd(root_fds, e_last.th[t].fd)
    /\ e_last' = [e_last EXCEPT !.th[t] = ChrIdle, !.last = NoFsCall]
    /\ ChrSame

ChrNext ==
    \E t \in ChrThreads :
        \/ \E stratum \in ChrStrata : ChrSetup(t, stratum)
        \/ \E fail \in BOOLEAN : ChrWrapper(t, fail)
        \/ ChrService(t)
        \/ ChrReturn(t)

SpecChroot == ChrInit /\ [][ChrNext]_vars

\* C32: when a wrapper makes its file system call under root_lock, the root
\* of the process is the directory its root_fd refers to, also after a root
\* fd was closed and its number is in use for the root of another stratum.
C32_WrapperRootIsRootFd ==
    e_last.last.kind = "wrapper" => e_last.last.actual = e_last.last.meant

\* C33: every file system call of a handler on a path that is resolved
\* against the root or the cwd of the process is made by a wrapper that
\* holds root_lock, the one of the SERVICE filter included, so no path is
\* resolved against the root another thread installed last.
C33_PathCallsUnderRootLock ==
    e_last.last.kind = "direct" =>
        e_last.last.locked /\ e_last.last.actual = e_last.last.meant

\* the stat of generate_service_for resolves its path in the root of a stratum
ChrServiceInInit == e_last.last.kind = "direct" => e_last.last.actual = InitRoot

(***************************************************************************)
(* SpecService: the table of generated services of crossfs.  getattr and   *)
(* read handlers of a service file run generate_service_for under the read *)
(* lock of cfg_lock, so several of them run at once.                       *)
(***************************************************************************)
MaxTouch == 2     \* changes of the st_mtime of the service file in one run

SvcThreads == 1..MaxThreads
SvcIdle == [pc |-> "idle", mtime |-> 0, e |-> 0]

\* table: the entry the hash table has for the path (0: none); entries: the
\* modification_time of every h_generated_service that was allocated; live:
\* the ones not freed
SvcInit ==
    /\ cfgs = <<>>
    /\ cfg_size = 0
    /\ root_fds = [fd \in FdPool |-> Closed]
    /\ files = NoFiles
    /\ x_last = Last("none", "other", 0, 0, FALSE, FALSE)
    /\ globals = <<>>
    /\ overrides = <<>>
    /\ e_size = 0
    /\ e_files = <<>>
    /\ creds = <<>>
    /\ e_now = StartTime
    /\ e_last = [th |-> [t \in SvcThreads |-> SvcIdle], st_mtime |-> 1, table |-> 0,
                 entries |-> <<>>, live |-> {}, calls |-> 0, removed |-> FALSE,
                 dangling |-> FALSE]

SvcSame == UNCHANGED <<cross_vars, globals, overrides, e_size, e_files, creds, e_now>>

\* the service file of the stratum is rewritten
SvcTouch ==
    /\ e_last.st_mtime <= MaxTouch
    /\ e_last' = [e_last EXCEPT !.st_mtime = @ + 1]
    /\ SvcSame

\* generate_service_for: stat(full_service_path, &original_service_stat)
SvcStat(t) ==
    /\ e_last.th[t].pc = "idle"
    /\ e_last.calls < MaxCalls
    /\ e_last' = [e_last EXCEPT !.th[t] = [pc |-> "find", mtime |-> e_last.st_mtime, e |-> 0],
                                !.calls = @ + 1]
    /\ SvcSame

\* HASH_FIND_STR(generated_services, full_service_path, *generated_service)
SvcFind(t) ==
    /\ e_last.th[t].pc = "find"
    /\ e_last' = [e_last EXCEPT !.th[t].pc = "check", !.th[t].e = e_last.table,
                                !.dangling = @ \/ (e_last.table # 0 /\ e_last.table \notin e_last.live)]
    /\ SvcSame

\* the test of modification_time: HASH_DEL and the two calls of free
SvcCheck(t) ==
    /\ e_last.th[t].pc = "check"
    /\ LET e == e_last.th[t].e
           stale == e # 0 /\ e_last.entries[e] # e_last.th[t].mtime
       IN  e_last' = [e_last EXCEPT
                         !.th[t].pc = IF e = 0 \/ stale THEN "create" ELSE "use",
                         !.table = IF stale /\ e_last.table = e THEN 0 ELSE @,
                         !.live = IF stale THEN @ \ {e} ELSE @,
                         !.removed = @ \/ stale,
                         !.dangling = @ \/ (e # 0 /\ e \notin e_last.live)]
    /\ SvcSame

\* malloc, asprintf, HASH_ADD_STR
SvcCreate(t) ==
    /\ e_last.th[t].pc = "create"
    /\ LET e == Len(e_last.entries) + 1
       IN  e_last' = [e_last EXCEPT !.th[t].pc = "use", !.th[t].e = e, !.table = e,
                                    !.entries = Append(@, e_last.th[t].mtime),
                                    !.live = @ \cup {e}]
    /\ SvcSame

\* read_service: strncpy(buf, generated_service->service_text, ..); m_getattr:
\* st_size = generated_service->service_text_len
SvcUse(t) ==
    /\ e_last.th[t].pc = "use"
    /\ e_last' = [e_last EXCEPT !.th[t] = SvcIdle,
                                !.dangling = @ \/ e_last.th[t].e \notin e_last.live]
    /\ SvcSame

SvcNext ==
    \/ SvcTouch
    \/ \E t \in SvcThreads : SvcStat(t) \/ SvcFind(t) \/ SvcCheck(t) \/ SvcCreate(t) \/ SvcUse(t)

SpecService == SvcInit /\ [][SvcNext]_vars

\* C34: the table of generated services is only added to while handlers
\* hold the read lock: under every interleaving of getattr and read
\* handlers of service files no handler uses an entry that another one
\* removed or freed.
C34_ServiceTableOnlyGrows == ~e_last.removed /\ ~e_last.dangling

\* a handler reads an h_generated_service after free
SvcNoUseAfterFree == ~e_last.dangling

====
